---- MODULE Spec2Model ----
(***************************************************************************)
(* A model of fontTools' sfnt container code (Lib/fontTools/ttLib/sfnt.py): *)
(* the SFNT / WOFF / WOFF2 Writers and Readers, the checkSumAdjustment      *)
(* protocol and the WOFF2 variable-length integer codecs.                   *)
(*                                                                         *)
(* Bytes are integers 0..255 and byte strings are sequences of bytes.       *)
(* A 32-bit quantity (and a Python integer that may leave the 32-bit range) *)
(* is a pair <<hi, lo>> that stands for hi * 65536 + lo, with lo in         *)
(* 0..65535; hi is negative for a negative integer and is 65536 or more for *)
(* an integer of 2^32 or more.                                              *)
(***************************************************************************)
EXTENDS Integers, Sequences, FiniteSets, TLC

VARIABLES writer, file, puts, partialCloses, lastOp, result, reader, fetched, codec

vars == <<writer, file, puts, partialCloses, lastOp, result, reader, fetched, codec>>

(***************************************************************************)
(* Bounds of the model.                                                     *)
(***************************************************************************)
\* the largest numTables a Writer is constructed with
MaxTables == 2
\* the longest byte string handed to unpackBase128
MaxCodeLen == 6
\* the longest byte string handed to unpack255UShort
MaxShortLen == 3
\* the longest of the short byte strings handed to calcChecksum
MaxSumLen == 5

(***************************************************************************)
(* Byte strings and streams.                                                *)
(***************************************************************************)
Zeros(n) == [i \in 1..n |-> 0]

Max(a, b) == IF a >= b THEN a ELSE b

Min(a, b) == IF a <= b THEN a ELSE b

\* data[a:b] of Python, 0-based, clipped to the string
Slice(data, a, b) ==
    LET lo == Min(a, Len(data))
        hi == Min(b, Len(data))
    IN  IF hi <= lo THEN <<>> ELSE [i \in 1..(hi - lo) |-> data[lo + i]]

\* data[a:] of Python
From(data, a) == Slice(data, a, Len(data))

\* file.seek(pos); file.write(data) on an in-memory stream: a write of no
\* bytes changes nothing, a write past the end fills the gap with NUL bytes
WriteAt(f, pos, data) ==
    IF Len(data) = 0 THEN f
    ELSE [i \in 1..Max(Len(f), pos + Len(data)) |->
            IF i > pos /\ i <= pos + Len(data) THEN data[i - pos]
            ELSE IF i <= Len(f) THEN f[i] ELSE 0]

\* file.seek(pos); file.read(n)
ReadAt(f, pos, n) == Slice(f, pos, pos + n)

\* (n + 3) & ~3
Align4(n) == ((n + 3) \div 4) * 4

padData(data) == data \o Zeros(Align4(Len(data)) - Len(data))

(***************************************************************************)
(* Wide integers and struct.pack / struct.unpack.                           *)
(***************************************************************************)
IntToW(n) == <<n \div 65536, n % 65536>>

\* the value of a wide integer that fits a model integer
WToInt(w) == w[1] * 65536 + w[2]

WFits(w) == w[1] >= 0 /\ w[1] < 16384

\* (a + b) & 0xffffffff
Add32(a, b) ==
    LET lo == a[2] + b[2]
    IN  <<(a[1] + b[1] + (lo \div 65536)) % 65536, lo % 65536>>

\* (a - b) & 0xffffffff
Sub32(a, b) ==
    LET lo == a[2] - b[2]
    IN  <<(a[1] - b[1] + (lo \div 65536)) % 65536, lo % 65536>>

\* struct.pack(">L", w)
PackL(w) == <<w[1] \div 256, w[1] % 256, w[2] \div 256, w[2] % 256>>

\* struct.unpack(">L", d)
UnpackL(d) == <<d[1] * 256 + d[2], d[3] * 256 + d[4]>>

\* struct.pack(">H", n)
PackH(n) == <<n \div 256, n % 256>>

\* struct.unpack(">H", d)
UnpackH(d) == d[1] * 256 + d[2]

(***************************************************************************)
(* UIntBase128.                                                             *)
(***************************************************************************)
\* n >> s for a wide integer n >= 0 and 0 <= s
Shr(n, s) ==
    IF s >= 16 THEN <<0, n[1] \div (2 ^ (s - 16))>>
    ELSE <<n[1] \div (2 ^ s),
           ((n[1] % (2 ^ s)) * (2 ^ (16 - s))) + (n[2] \div (2 ^ s))>>

\* n >= 128
WGe128(n) == n[1] > 0 \/ n[2] >= 128

RECURSIVE base128Size(_)
base128Size(n) == IF WGe128(n) THEN 1 + base128Size(Shr(n, 7)) ELSE 1

packBase128Bytes(n) ==
    LET size == base128Size(n)
    IN  [j \in 1..size |->
            LET b == Shr(n, 7 * (size - j))[2] % 128
            IN  IF j < size THEN b + 128 ELSE b]

\* packBase128 without the upper limit of its range check
packBase128_noUpperLimit(n) ==
    IF n[1] < 0
    THEN [ok |-> FALSE, err |-> "UIntBase128 format requires 0 <= integer <= 2**32-1"]
    ELSE [ok |-> TRUE, data |-> packBase128Bytes(n)]

\* the result is [ok |-> TRUE, data |-> bytes] or [ok |-> FALSE, err |-> message]
packBase128(n) ==
    IF n[1] < 0 \/ n[1] >= 65536
    THEN [ok |-> FALSE, err |-> "UIntBase128 format requires 0 <= integer <= 2**32-1"]
    ELSE [ok |-> TRUE, data |-> packBase128Bytes(n)]

\* (result << 7) | (code & 0x7f)
ShlOr7(r, code) ==
    <<r[1] * 128 + ((r[2] * 128) \div 65536), ((r[2] * 128) % 65536) + (code % 128)>>

\* result & 0xFE000000
TopSevenBits(r) == (r[1] \div 512) % 128

\* the loop of unpackBase128: i is the number of bytes already read
RECURSIVE unpackBase128Loop(_, _, _)
unpackBase128Loop(i, r, data) ==
    IF i = 5
    THEN [ok |-> FALSE, err |-> "UIntBase128-encoded sequence is longer than 5 bytes"]
    ELSE IF Len(data) = 0
    THEN [ok |-> FALSE, err |-> "not enough data to unpack UIntBase128"]
    ELSE IF TopSevenBits(r) # 0
    THEN [ok |-> FALSE, err |-> "UIntBase128 value exceeds 2**32-1"]
    ELSE LET code == data[1]
             r2 == ShlOr7(r, code)
         IN  IF code < 128
             THEN [ok |-> TRUE, value |-> r2, rest |-> Tail(data)]
             ELSE unpackBase128Loop(i + 1, r2, Tail(data))

\* whether unpackBase128 looks at the leading byte before the loop
LeadingZeroRejected(data) == data[1] = 128

unpackBase128(data) ==
    IF Len(data) = 0
    THEN [ok |-> FALSE, err |-> "AssertionError"]
    ELSE IF LeadingZeroRejected(data)
    THEN [ok |-> FALSE, err |-> "UIntBase128 value must not start with leading zeros"]
    ELSE unpackBase128Loop(0, <<0, 0>>, data)

\* the draft of the decoder in ttLib/woff2.py
woff2_unpackBase128(data) == unpackBase128Loop(0, <<0, 0>>, data)

(***************************************************************************)
(* 255UInt16.                                                               *)
(***************************************************************************)
unpack255UShort(data) ==
    IF Len(data) = 0 THEN [ok |-> FALSE, err |-> "TypeError"] ELSE
    LET code == data[1]
        d == Tail(data)
    IN  IF code = 253
        THEN IF Len(d) < 2
             THEN [ok |-> FALSE, err |-> "not enough data to unpack 255UInt16"]
             ELSE [ok |-> TRUE, value |-> UnpackH(Slice(d, 0, 2)), rest |-> From(d, 2)]
        ELSE IF code = 254
        THEN IF Len(d) = 0
             THEN [ok |-> FALSE, err |-> "not enough data to unpack 255UInt16"]
             ELSE [ok |-> TRUE, value |-> d[1] + 506, rest |-> From(d, 1)]
        ELSE IF code = 255
        THEN IF Len(d) = 0
             THEN [ok |-> FALSE, err |-> "not enough data to unpack 255UInt16"]
             ELSE [ok |-> TRUE, value |-> d[1] + 253, rest |-> From(d, 1)]
        ELSE [ok |-> TRUE, value |-> code, rest |-> d]

\* pack255UShort that writes every value from 253 on as 253 and a word
pack255UShort_wordOnly(value) ==
    IF value < 0 \/ value > 65535
    THEN [ok |-> FALSE, err |-> "255UInt16 format requires 0 <= integer <= 65535"]
    ELSE IF value < 253 THEN [ok |-> TRUE, data |-> <<value>>]
    ELSE [ok |-> TRUE, data |-> <<253>> \o PackH(value)]

\* pack255UShort with the lead bytes 255 and 254 exchanged
pack255UShort_exchanged(value) ==
    IF value < 0 \/ value > 65535
    THEN [ok |-> FALSE, err |-> "255UInt16 format requires 0 <= integer <= 65535"]
    ELSE IF value < 253 THEN [ok |-> TRUE, data |-> <<value>>]
    ELSE IF value < 506 THEN [ok |-> TRUE, data |-> <<254, value - 253>>]
    ELSE IF value < 762 THEN [ok |-> TRUE, data |-> <<255, value - 506>>]
    ELSE [ok |-> TRUE, data |-> <<253>> \o PackH(value)]

pack255UShort(value) ==
    IF value < 0 \/ value > 65535
    THEN [ok |-> FALSE, err |-> "255UInt16 format requires 0 <= integer <= 65535"]
    ELSE IF value < 253 THEN [ok |-> TRUE, data |-> <<value>>]
    ELSE IF value < 506 THEN [ok |-> TRUE, data |-> <<255, value - 253>>]
    ELSE IF value < 762 THEN [ok |-> TRUE, data |-> <<254, value - 506>>]
    ELSE [ok |-> TRUE, data |-> <<253>> \o PackH(value)]

(***************************************************************************)
(* Tags, formats and sizes.                                                 *)
(***************************************************************************)
\* 'head', 'cmap' and a tag that is not a WOFF2 known tag, 'ZZZZ'
TagHead == <<104, 101, 97, 100>>

TagCmap == <<99, 109, 97, 112>>

TagZZZZ == <<90, 90, 90, 90>>

TagGlyf == <<103, 108, 121, 102>>

TagLoca == <<108, 111, 99, 97>>

woff2TransformedTableTags == {TagGlyf, TagLoca}

woff2KnownTags ==
    <<
       <<99, 109, 97, 112>>, <<104, 101, 97, 100>>, <<104, 104, 101, 97>>, <<104, 109, 116, 120>>,
       <<109, 97, 120, 112>>, <<110, 97, 109, 101>>, <<79, 83, 47, 50>>, <<112, 111, 115, 116>>,
       <<99, 118, 116, 32>>, <<102, 112, 103, 109>>, <<103, 108, 121, 102>>, <<108, 111, 99, 97>>,
       <<112, 114, 101, 112>>, <<67, 70, 70, 32>>, <<86, 79, 82, 71>>, <<69, 66, 68, 84>>,
       <<69, 66, 76, 67>>, <<103, 97, 115, 112>>, <<104, 100, 109, 120>>, <<107, 101, 114, 110>>,
       <<76, 84, 83, 72>>, <<80, 67, 76, 84>>, <<86, 68, 77, 88>>, <<118, 104, 101, 97>>,
       <<118, 109, 116, 120>>, <<66, 65, 83, 69>>, <<71, 68, 69, 70>>, <<71, 80, 79, 83>>,
       <<71, 83, 85, 66>>, <<69, 66, 83, 67>>, <<74, 83, 84, 70>>, <<77, 65, 84, 72>>,
       <<67, 66, 68, 84>>, <<67, 66, 76, 67>>, <<67, 79, 76, 82>>, <<67, 80, 65, 76>>,
       <<83, 86, 71, 32>>, <<115, 98, 105, 120>>, <<97, 99, 110, 116>>, <<97, 118, 97, 114>>,
       <<98, 100, 97, 116>>, <<98, 108, 111, 99>>, <<98, 115, 108, 110>>, <<99, 118, 97, 114>>,
       <<102, 100, 115, 99>>, <<102, 101, 97, 116>>, <<102, 109, 116, 120>>, <<102, 118, 97, 114>>,
       <<103, 118, 97, 114>>, <<104, 115, 116, 121>>, <<106, 117, 115, 116>>, <<108, 99, 97, 114>>,
       <<109, 111, 114, 116>>, <<109, 111, 114, 120>>, <<111, 112, 98, 100>>, <<112, 114, 111, 112>>,
       <<116, 114, 97, 107>>, <<90, 97, 112, 102>>, <<83, 105, 108, 102>>, <<71, 108, 97, 116>>,
       <<71, 108, 111, 99>>, <<70, 101, 97, 116>>, <<83, 105, 108, 108>>
    >>

getKnownTagIndex(tag) ==
    IF \E i \in 1..Len(woff2KnownTags) : woff2KnownTags[i] = tag
    THEN (CHOOSE i \in 1..Len(woff2KnownTags) : woff2KnownTags[i] = tag) - 1
    ELSE 63

\* the order of Python's sorted() on tags: by byte value, position by position
TagLess(a, b) ==
    \E k \in 1..4 : a[k] < b[k] /\ \A j \in 1..(k - 1) : a[j] = b[j]

sfntDirectorySize == 12

sfntDirectoryEntrySize == 16

woffDirectorySize == 44

woffDirectoryEntrySize == 20

woff2DirectorySize == 48

\* the flavor None of the code is written "sfnt"
Flavors == {"sfnt", "woff", "woff2"}

directorySize(flavor) ==
    IF flavor = "sfnt" THEN sfntDirectorySize
    ELSE IF flavor = "woff" THEN woffDirectorySize
    ELSE woff2DirectorySize

formatSize(flavor) ==
    IF flavor = "sfnt" THEN sfntDirectoryEntrySize ELSE woffDirectoryEntrySize

(***************************************************************************)
(* calcChecksum.                                                            *)
(***************************************************************************)
blockSize == 4096

\* a + b of Python integers (no wrap)
WAdd(a, b) ==
    LET lo == a[2] + b[2]
    IN  <<a[1] + b[1] + (lo \div 65536), lo % 65536>>

\* w & 0xffffffff
Mask32(w) == <<w[1] % 65536, w[2]>>

\* sum(struct.unpack(">%dL" % (len(block) // 4), block))
\* of the longs lo..hi-1 of the block, summed by halves to keep the
\* evaluation shallow
RECURSIVE SumLongs(_, _, _)
SumLongs(block, lo, hi) ==
    IF lo >= hi THEN <<0, 0>>
    ELSE IF lo + 1 = hi THEN UnpackL(Slice(block, 4 * lo, 4 * lo + 4))
    ELSE WAdd(SumLongs(block, lo, (lo + hi) \div 2),
              SumLongs(block, (lo + hi) \div 2, hi))

\* the loop over the blocks that forgets the sum of the earlier blocks
RECURSIVE ChecksumBlocks_lastBlock(_, _, _)
ChecksumBlocks_lastBlock(data, i, value) ==
    IF i >= Len(data) THEN value
    ELSE ChecksumBlocks_lastBlock(data, i + blockSize,
            Mask32(SumLongs(data, i \div 4, Min(i + blockSize, Len(data)) \div 4)))

RECURSIVE ChecksumBlocks(_, _, _)
ChecksumBlocks(data, i, value) ==
    IF i >= Len(data) THEN value
    ELSE ChecksumBlocks(data, i + blockSize,
            Mask32(WAdd(value,
                SumLongs(data, i \div 4, Min(i + blockSize, Len(data)) \div 4))))

calcChecksum(data) == ChecksumBlocks(padData(data), 0, <<0, 0>>)

\* the checksum of 'head' skips the checkSumAdjustment:
\* calcChecksum(data[:8] + b'\0\0\0\0' + data[12:])
HeadForChecksum(data) == Slice(data, 0, 8) \o Zeros(4) \o From(data, 12)

tableChecksum(tag, data) ==
    IF tag = TagHead THEN calcChecksum(HeadForChecksum(data)) ELSE calcChecksum(data)

(***************************************************************************)
(* Stand-ins for zlib and brotli, which are libraries outside the          *)
(* repository: a run-length code behind a one-byte header.  They keep what  *)
(* the code relies on: compression is a function, decompression inverts it  *)
(* and rejects what is not well formed, and the compressed form may be      *)
(* shorter than, as long as, or longer than the data.                       *)
(***************************************************************************)
RECURSIVE RunLength(_, _)
RunLength(data, i) ==
    IF i > Len(data) THEN 0
    ELSE IF i < Len(data) /\ data[i + 1] = data[i] THEN 1 + RunLength(data, i + 1)
    ELSE 1

RECURSIVE RLE(_)
RLE(data) ==
    IF Len(data) = 0 THEN <<>>
    ELSE LET n == RunLength(data, 1)
         IN  <<n, data[1]>> \o RLE(From(data, n))

RECURSIVE UnRLE(_)
UnRLE(c) ==
    IF Len(c) = 0 THEN <<>>
    ELSE [i \in 1..c[1] |-> c[2]] \o UnRLE(From(c, 2))

WellFormedRLE(c) ==
    /\ Len(c) % 2 = 0
    /\ \A k \in 1..(Len(c) \div 2) : c[2 * k - 1] >= 1

Compress(header, data) == <<header>> \o RLE(data)

Decompress(header, c) ==
    IF Len(c) >= 1 /\ c[1] = header /\ WellFormedRLE(Tail(c))
    THEN [ok |-> TRUE, data |-> UnRLE(Tail(c))]
    ELSE [ok |-> FALSE, err |-> "decompression error"]

zlibCompress(data) == Compress(120, data)

zlibDecompress(c) == Decompress(120, c)

brotliCompress(data) == Compress(27, data)

brotliDecompress(c) == Decompress(27, c)

(***************************************************************************)
(* Directory entries.  One record shape serves the three entry classes; an  *)
(* attribute a class does not have stays at its initial value here (an SFNT *)
(* entry has no origLength, only a WOFF2 entry has flags and data).         *)
(***************************************************************************)
NewEntry(tag) ==
    [tag |-> tag, checkSum |-> <<0, 0>>, offset |-> 0, length |-> 0,
     origLength |-> 0, uncompressed |-> FALSE, data |-> <<>>, flags |-> 0]

\* DirectoryEntry.encodeData / WOFFDirectoryEntry.encodeData
\* encodeData that does not compare the lengths
encodeData_always(flavor, uncompressed, data) ==
    IF flavor = "woff" /\ ~uncompressed THEN zlibCompress(data) ELSE data

encodeData(flavor, uncompressed, data) ==
    IF flavor = "woff"
    THEN IF uncompressed \/ Len(zlibCompress(data)) >= Len(data)
         THEN data
         ELSE zlibCompress(data)
    ELSE data

\* DirectoryEntry.decodeData / WOFFDirectoryEntry.decodeData
decodeData(flavor, entry, rawData) ==
    IF flavor = "woff"
    THEN IF entry.length = entry.origLength
         THEN [ok |-> TRUE, data |-> rawData]
         ELSE IF ~(entry.length < entry.origLength)
         THEN [ok |-> FALSE, err |-> "AssertionError"]
         ELSE LET d == zlibDecompress(rawData)
              IN  IF ~d.ok THEN d
                  ELSE IF Len(d.data) # entry.origLength
                  THEN [ok |-> FALSE, err |-> "AssertionError"]
                  ELSE d
    ELSE [ok |-> TRUE, data |-> rawData]

sfntEntryToString(e) ==
    e.tag \o PackL(e.checkSum) \o PackL(IntToW(e.offset)) \o PackL(IntToW(e.length))

woffEntryToString(e) ==
    e.tag \o PackL(IntToW(e.offset)) \o PackL(IntToW(e.length))
          \o PackL(IntToW(e.origLength)) \o PackL(e.checkSum)

\* toString that writes the length of every entry after its origLength
woff2EntryToString_twice(e) ==
    <<e.flags>>
    \o (IF e.flags % 64 = 63 THEN e.tag ELSE <<>>)
    \o packBase128(IntToW(e.origLength)).data
    \o packBase128(IntToW(e.length)).data

woff2EntryToString(e) ==
    <<e.flags>>
    \o (IF e.flags % 64 = 63 THEN e.tag ELSE <<>>)
    \o packBase128(IntToW(e.origLength)).data
    \o (IF e.tag \in woff2TransformedTableTags
        THEN packBase128(IntToW(e.length)).data ELSE <<>>)

entryToString(flavor, e) ==
    IF flavor = "sfnt" THEN sfntEntryToString(e)
    ELSE IF flavor = "woff" THEN woffEntryToString(e)
    ELSE woff2EntryToString(e)

RECURSIVE EntriesToString(_, _)
EntriesToString(flavor, entries) ==
    IF Len(entries) = 0 THEN <<>>
    ELSE entryToString(flavor, Head(entries)) \o EntriesToString(flavor, Tail(entries))

\* insert e into a sequence of entries sorted by tag
RECURSIVE InsertByTag(_, _)
InsertByTag(e, sorted) ==
    IF Len(sorted) = 0 THEN <<e>>
    ELSE IF TagLess(e.tag, Head(sorted).tag) THEN <<e>> \o sorted
    ELSE <<Head(sorted)>> \o InsertByTag(e, Tail(sorted))

\* the entries left in the order of the puts
SortByTag_asPut(entries) == entries

\* sorted(self.tables.items())
RECURSIVE SortByTag(_)
SortByTag(entries) ==
    IF Len(entries) = 0 THEN <<>>
    ELSE InsertByTag(Head(entries), SortByTag(Tail(entries)))

HasTable(tables, tag) == \E i \in 1..Len(tables) : tables[i].tag = tag

TableOf(tables, tag) == tables[CHOOSE i \in 1..Len(tables) : tables[i].tag = tag]

(***************************************************************************)
(* Writers.                                                                 *)
(***************************************************************************)
\* floor(log2 n) for n >= 1
RECURSIVE Log2Floor(_)
Log2Floor(n) == IF n < 2 THEN 0 ELSE 1 + Log2Floor(n \div 2)

\* fontTools.ttLib.getSearchRange(n, 16): <<searchRange, entrySelector, rangeShift>>
getSearchRange(n) ==
    <<16 * (2 ^ Log2Floor(n)), Log2Floor(n), 16 * n - 16 * (2 ^ Log2Floor(n))>>

\* WOFFFlavorData(): None is written -1
NoFlavorData ==
    [majorVersion |-> -1, minorVersion |-> -1, metaData |-> <<>>, privData |-> <<>>]

NoHeader ==
    [length |-> 0, totalSfntSize |-> 0, totalCompressedSize |-> 0,
     majorVersion |-> 0, minorVersion |-> 0, metaOffset |-> 0, metaLength |-> 0,
     metaOrigLength |-> 0, privOffset |-> 0, privLength |-> 0,
     compressedMetaData |-> <<>>]

\* SFNTWriter.__init__ with _setDirectoryFormat and _seekFirstTable
NewWriter(flavor, numTables, sfntVersion, flavorData) ==
    [flavor |-> flavor, numTables |-> numTables, sfntVersion |-> sfntVersion,
     flavorData |-> IF flavor = "sfnt" THEN NoFlavorData ELSE flavorData,
     tables |-> <<>>,
     nextTableOffset |->
        IF flavor = "woff2" THEN 0
        ELSE directorySize(flavor) + numTables * formatSize(flavor),
     headTable |-> <<>>, transformBuffer |-> <<>>, hdr |-> NoHeader,
     closed |-> FALSE]

\* the outcome of a Writer operation
Outcome(w, f, err) == [w |-> w, file |-> f, err |-> err]

\* SFNTWriter._writeTable / WOFF2Writer._writeTable
\* _writeTable that adds no padding after the data
writeTable_unpadded(w, f, entry, data) ==
    IF w.flavor = "woff2"
    THEN [w |-> w, file |-> f, entry |-> [entry EXCEPT !.data = data]]
    ELSE LET enc == encodeData(w.flavor, entry.uncompressed, data)
             e1 == [entry EXCEPT !.offset = w.nextTableOffset,
                                 !.length = Len(enc),
                                 !.origLength = IF w.flavor = "woff" THEN Len(data) ELSE 0]
         IN  [w |-> [w EXCEPT !.nextTableOffset = @ + e1.length],
              file |-> WriteAt(f, e1.offset, enc),
              entry |-> e1]

writeTable(w, f, entry, data) ==
    IF w.flavor = "woff2"
    THEN [w |-> w, file |-> f, entry |-> [entry EXCEPT !.data = data]]
    ELSE LET enc == encodeData(w.flavor, entry.uncompressed, data)
             e1 == [entry EXCEPT !.offset = w.nextTableOffset,
                                 !.length = Len(enc),
                                 !.origLength = IF w.flavor = "woff" THEN Len(data) ELSE 0]
             f1 == WriteAt(f, e1.offset, enc)
             tell == e1.offset + e1.length
             next == w.nextTableOffset + Align4(e1.length)
         IN  [w |-> [w EXCEPT !.nextTableOffset = next],
              file |-> WriteAt(f1, tell, Zeros(next - tell)),
              entry |-> e1]

\* __setitem__ without its test
AlreadyWritten_never(w, tag) == FALSE

\* "if tag in self.tables" of __setitem__
AlreadyWritten(w, tag) == HasTable(w.tables, tag)

\* SFNTWriter.__setitem__ / WOFF2Writer.__setitem__
setitem(w, f, tag, data) ==
    IF AlreadyWritten(w, tag) THEN Outcome(w, f, "cannot rewrite")
    ELSE LET entry == [NewEntry(tag) EXCEPT !.checkSum = tableChecksum(tag, data),
                                            !.uncompressed = (tag = TagHead)]
             wh == IF tag = TagHead THEN [w EXCEPT !.headTable = data] ELSE w
             wt == writeTable(wh, f, entry, data)
             e2 == IF w.flavor = "woff2"
                   THEN [wt.entry EXCEPT !.flags = getKnownTagIndex(tag),
                                         !.origLength = Len(data)]
                   ELSE wt.entry
         IN  Outcome([wt.w EXCEPT !.tables = Append(@, e2)], wt.file, "ok")

\* _assertNumTables without its test
assertNumTables_any(w) == TRUE

\* SFNTWriter._assertNumTables
assertNumTables(w) == Len(w.tables) = w.numTables

\* sstruct.pack(sfntDirectoryFormat, self)
packSfntDirectory(w, n) ==
    w.sfntVersion \o PackH(w.numTables) \o PackH(getSearchRange(n)[1])
        \o PackH(getSearchRange(n)[2]) \o PackH(getSearchRange(n)[3])

\* sstruct.pack(woffDirectoryFormat, self)
packWoffDirectory(w) ==
    <<119, 79, 70, 70>> \o w.sfntVersion \o PackL(IntToW(w.hdr.length))
        \o PackH(w.numTables) \o PackH(0) \o PackL(IntToW(w.hdr.totalSfntSize))
        \o PackH(w.hdr.majorVersion) \o PackH(w.hdr.minorVersion)
        \o PackL(IntToW(w.hdr.metaOffset)) \o PackL(IntToW(w.hdr.metaLength))
        \o PackL(IntToW(w.hdr.metaOrigLength))
        \o PackL(IntToW(w.hdr.privOffset)) \o PackL(IntToW(w.hdr.privLength))

\* sstruct.pack(woff2DirectoryFormat, self)
packWoff2Directory(w) ==
    <<119, 79, 70, 50>> \o w.sfntVersion \o PackL(IntToW(w.hdr.length))
        \o PackH(w.numTables) \o PackH(0) \o PackL(IntToW(w.hdr.totalSfntSize))
        \o PackL(IntToW(w.hdr.totalCompressedSize))
        \o PackH(w.hdr.majorVersion) \o PackH(w.hdr.minorVersion)
        \o PackL(IntToW(w.hdr.metaOffset)) \o PackL(IntToW(w.hdr.metaLength))
        \o PackL(IntToW(w.hdr.metaOrigLength))
        \o PackL(IntToW(w.hdr.privOffset)) \o PackL(IntToW(w.hdr.privLength))

packDirectory(w) ==
    IF w.flavor = "sfnt" THEN packSfntDirectory(w, w.numTables)
    ELSE IF w.flavor = "woff" THEN packWoffDirectory(w)
    ELSE packWoff2Directory(w)

\* the 'original' SFNT offsets of _makeDummySFNTDirectory, in the order of
\* self.tables.values()
RECURSIVE OrigOffsets(_, _)
OrigOffsets(tables, offset) ==
    IF Len(tables) = 0 THEN <<>>
    ELSE <<[Head(tables) EXCEPT !.offset = offset, !.length = Head(tables).origLength]>>
         \o OrigOffsets(Tail(tables), offset + Align4(Head(tables).origLength))

\* the dummy directory built from the offsets and lengths of the stored
\* (compressed) entries instead of the original ones
makeDummySFNTDirectory_stored(w) ==
    packSfntDirectory(w, Len(w.tables))
    \o EntriesToString("sfnt", SortByTag(w.tables))

\* WOFFWriter._makeDummySFNTDirectory
makeDummySFNTDirectory(w) ==
    packSfntDirectory(w, Len(w.tables))
    \o EntriesToString("sfnt",
          SortByTag(OrigOffsets(w.tables,
              sfntDirectorySize + sfntDirectoryEntrySize * Len(w.tables))))

RECURSIVE SumChecksums(_)
SumChecksums(tables) ==
    IF Len(tables) = 0 THEN <<0, 0>>
    ELSE WAdd(Head(tables).checkSum, SumChecksums(Tail(tables)))

\* 0xB1B0AFBA
ChecksumMagic == <<45488, 44986>>

\* the subtraction the other way round
Adjustment_reversed(checksum) == Sub32(checksum, ChecksumMagic)

\* (0xB1B0AFBA - checksum) & 0xffffffff
Adjustment(checksum) == Sub32(ChecksumMagic, checksum)

\* SFNTWriter._calcMasterChecksum / WOFFWriter._calcMasterChecksum
calcMasterChecksum(w, directory) ==
    LET dir == IF w.flavor = "sfnt" THEN directory ELSE makeDummySFNTDirectory(w)
    IN  Adjustment(Mask32(WAdd(SumChecksums(w.tables), calcChecksum(dir))))

\* where _writeMasterChecksum seeks to: self.tables['head'].offset + 8
AdjustmentOffset(w) == TableOf(w.tables, TagHead).offset + 8

\* SFNTWriter._writeMasterChecksum, on the output file
writeMasterChecksum(w, f, directory) ==
    WriteAt(f, AdjustmentOffset(w), PackL(calcMasterChecksum(w, directory)))

\* the end of SFNTWriter.close: patch the checkSumAdjustment if there is a
\* 'head' table, then write the directory at offset 0
writeDirectory(w, f, directory) ==
    Outcome([w EXCEPT !.closed = TRUE],
            WriteAt(IF HasTable(w.tables, TagHead)
                    THEN writeMasterChecksum(w, f, directory) ELSE f,
                    0, directory),
            "ok")

\* close that writes the directory before it counts the tables
sfntClose_countLast(w, f) ==
    IF ~assertNumTables(w)
    THEN Outcome(w, writeDirectory(w, f,
                        packDirectory(w) \o EntriesToString(w.flavor, SortByTag(w.tables))).file,
                 "wrong number of tables")
    ELSE writeDirectory(w, f,
             packDirectory(w) \o EntriesToString(w.flavor, SortByTag(w.tables)))

\* SFNTWriter.close
sfntClose(w, f) ==
    IF ~assertNumTables(w) THEN Outcome(w, f, "wrong number of tables")
    ELSE writeDirectory(w, f,
             packDirectory(w) \o EntriesToString(w.flavor, SortByTag(w.tables)))

\* WOFFWriter._calcSftnSize
RECURSIVE SumOrigLengths(_)
SumOrigLengths(tables) ==
    IF Len(tables) = 0 THEN 0
    ELSE Align4(Head(tables).origLength) + SumOrigLengths(Tail(tables))

calcSfntSize(w) ==
    sfntDirectorySize + sfntDirectoryEntrySize * Len(w.tables) + SumOrigLengths(w.tables)

\* WOFFWriter._getVersion: struct.unpack(">HH", self.headTable[4:8]) needs 4 bytes
getVersionFails(w) ==
    /\ ~(w.flavorData.majorVersion # -1 /\ w.flavorData.minorVersion # -1)
    /\ HasTable(w.tables, TagHead)
    /\ Len(Slice(w.headTable, 4, 8)) # 4

getVersion(w) ==
    IF w.flavorData.majorVersion # -1 /\ w.flavorData.minorVersion # -1
    THEN <<w.flavorData.majorVersion, w.flavorData.minorVersion>>
    ELSE IF HasTable(w.tables, TagHead)
    THEN <<UnpackH(Slice(w.headTable, 4, 6)), UnpackH(Slice(w.headTable, 6, 8))>>
    ELSE <<0, 0>>

\* WOFFFlavorData.encodeData / WOFF2FlavorData.encodeData
flavorEncodeData(flavor, data) ==
    IF flavor = "woff2" THEN brotliCompress(data) ELSE zlibCompress(data)

\* WOFFWriter._calcFlavorDataOffsetsAndSize: the header fields and the end offset
calcFlavorDataOffsetsAndSize(w, offset) ==
    LET data == w.flavorData
        hasMeta == Len(data.metaData) > 0
        hasPriv == Len(data.privData) > 0
        compressed == IF hasMeta THEN flavorEncodeData(w.flavor, data.metaData) ELSE <<>>
        afterMeta == offset + Len(compressed)
        privOffset == Align4(afterMeta)
    IN  [hdr |-> [w.hdr EXCEPT
                    !.metaOrigLength = IF hasMeta THEN Len(data.metaData) ELSE 0,
                    !.metaOffset = IF hasMeta THEN offset ELSE 0,
                    !.compressedMetaData = compressed,
                    !.metaLength = Len(compressed),
                    !.privOffset = IF hasPriv THEN privOffset ELSE 0,
                    !.privLength = IF hasPriv THEN Len(data.privData) ELSE 0],
         offset |-> IF hasPriv THEN privOffset + Len(data.privData) ELSE afterMeta]

RECURSIVE SumLengths(_)
SumLengths(tables) ==
    IF Len(tables) = 0 THEN 0
    ELSE Align4(Head(tables).length) + SumLengths(Tail(tables))

\* WOFFWriter._calcTotalSize
woffCalcTotalSize(w) ==
    calcFlavorDataOffsetsAndSize(w,
        directorySize(w.flavor) + formatSize(w.flavor) * Len(w.tables)
            + SumLengths(w.tables))

\* WOFF2Writer._calcTotalSize
woff2CalcTotalSize(w) ==
    calcFlavorDataOffsetsAndSize(w,
        Align4(directorySize(w.flavor) + Len(EntriesToString("woff2", w.tables))
               + w.hdr.totalCompressedSize))

\* WOFFWriter._writeFlavorData
writeFlavorData(w, f) ==
    LET privData == w.flavorData.privData
        both == Len(w.hdr.compressedMetaData) > 0 /\ Len(privData) > 0
        meta == IF both THEN padData(w.hdr.compressedMetaData)
                ELSE w.hdr.compressedMetaData
        f1 == IF Len(meta) > 0 THEN WriteAt(f, w.hdr.metaOffset, meta) ELSE f
    IN  IF Len(privData) > 0 THEN WriteAt(f1, w.hdr.privOffset, privData) ELSE f1

\* self.totalSfntSize = self._calcSftnSize()
setTotalSfntSize(w) == [w EXCEPT !.hdr.totalSfntSize = calcSfntSize(w)]

\* self.majorVersion, self.minorVersion = self._getVersion()
setVersion(w) ==
    [w EXCEPT !.hdr.majorVersion = getVersion(w)[1],
              !.hdr.minorVersion = getVersion(w)[2]]

\* self.length = self._calcTotalSize(), which also sets the meta and priv fields
setTotalSize(w, total) == [w EXCEPT !.hdr = [total.hdr EXCEPT !.length = total.offset]]

\* self._writeFlavorData() after the directory is written
thenWriteFlavorData(r) == Outcome(r.w, writeFlavorData(r.w, r.file), r.err)

\* WOFFWriter.close after _assertNumTables and _calcSftnSize
woffCloseRest(w, f) ==
    IF getVersionFails(w) THEN Outcome(w, f, "struct.error")
    ELSE thenWriteFlavorData(
             sfntClose(setTotalSize(setVersion(w), woffCalcTotalSize(w)), f))

\* WOFFWriter.close
woffClose(w, f) ==
    IF ~assertNumTables(w) THEN Outcome(w, f, "wrong number of tables")
    ELSE woffCloseRest(setTotalSfntSize(w), f)

\* transformTable that leaves the data of 'loca' as it is
transformTable_kept(entry) == entry.data

\* the data of the entry that close() saves: WOFF2Writer.transformTable gives
\* b"" for 'loca'; the Writers of this model are given no 'glyf' table
transformTable(entry) == IF entry.tag = TagLoca THEN <<>> ELSE entry.data

\* the loop of WOFF2Writer.close that writes the table data to transformBuffer
RECURSIVE saveToTransformBuffer(_, _, _)
saveToTransformBuffer(w, todo, done) ==
    IF Len(todo) = 0 THEN [w EXCEPT !.tables = done]
    ELSE saveToTransformBuffer(
             [w EXCEPT !.transformBuffer =
                           WriteAt(@, w.nextTableOffset, transformTable(Head(todo))),
                       !.nextTableOffset = @ + Len(transformTable(Head(todo)))],
             Tail(todo),
             Append(done, [Head(todo) EXCEPT !.offset = w.nextTableOffset,
                                             !.length = Len(transformTable(Head(todo)))]))

\* WOFF2Writer._writeMasterChecksum, on the transformBuffer
woff2WriteMasterChecksum(w) ==
    [w EXCEPT !.transformBuffer = writeMasterChecksum(w, @, <<>>)]

\* the header fields WOFF2Writer.close sets before _getVersion
woff2SetSizes(w, compressedData) ==
    [w EXCEPT !.hdr.totalSfntSize = calcSfntSize(w),
              !.hdr.totalCompressedSize = Len(compressedData)]

\* the end of WOFF2Writer.close: directory and compressed data, then flavor data
woff2WriteFile(w, f, compressedData) ==
    Outcome([w EXCEPT !.closed = TRUE],
            writeFlavorData(w,
                WriteAt(f, 0, padData(packDirectory(w)
                                      \o EntriesToString("woff2", w.tables)
                                      \o compressedData))),
            "ok")

\* WOFF2Writer.close from "self.length = self._calcTotalSize()"
woff2CloseSized(w, f, compressedData) ==
    IF getVersionFails(w) THEN Outcome(w, f, "struct.error")
    ELSE woff2WriteFile(setVersion(w), f, compressedData)

\* WOFF2Writer.close from the brotli compression of the transformBuffer
woff2CloseCompress(w, f, compressedData) ==
    woff2CloseSized(
        setTotalSize(woff2SetSizes(w, compressedData),
                     woff2CalcTotalSize(woff2SetSizes(w, compressedData))),
        f, compressedData)

\* WOFF2Writer.close from self._writeMasterChecksum()
woff2CloseChecksum(w, f) ==
    IF ~HasTable(w.tables, TagHead) THEN Outcome(w, f, "KeyError")
    ELSE woff2CloseCompress(woff2WriteMasterChecksum(w), f,
             brotliCompress(woff2WriteMasterChecksum(w).transformBuffer))

\* WOFF2Writer.close
woff2Close(w, f) ==
    IF ~assertNumTables(w) THEN Outcome(w, f, "wrong number of tables")
    ELSE woff2CloseChecksum(saveToTransformBuffer(w, SortByTag(w.tables), <<>>), f)

\* close() of the Writer class that SFNTWriter.__new__ picked for the flavor
close(w, f) ==
    IF w.flavor = "sfnt" THEN sfntClose(w, f)
    ELSE IF w.flavor = "woff" THEN woffClose(w, f)
    ELSE woff2Close(w, f)

(***************************************************************************)
(* Readers.                                                                 *)
(***************************************************************************)
\* a u32 field of a directory as a model integer; the fields of the files
\* of this model are far below 2^30
U32(d) == WToInt(UnpackL(d))

NoReader == [open |-> FALSE]

FailedReader(err) == [open |-> TRUE, ok |-> FALSE, err |-> err]

\* the class SFNTReader.__new__ picks from the first four bytes
readerClass(f) ==
    LET sig == ReadAt(f, 0, 4)
    IN  IF sig = <<119, 79, 70, 50>> THEN "woff2"
        ELSE IF sig = <<119, 79, 70, 70>> THEN "woff"
        ELSE IF sig = <<116, 116, 99, 102>> THEN "ttc"
        ELSE "sfnt"

\* DirectoryEntry.fromFile on the 16 or 20 bytes d of an SFNT or WOFF entry
entryFromString(flavor, d) ==
    IF flavor = "sfnt"
    THEN [NewEntry(Slice(d, 0, 4)) EXCEPT !.checkSum = UnpackL(Slice(d, 4, 8)),
                                          !.offset = U32(Slice(d, 8, 12)),
                                          !.length = U32(Slice(d, 12, 16))]
    ELSE [NewEntry(Slice(d, 0, 4)) EXCEPT !.offset = U32(Slice(d, 4, 8)),
                                          !.length = U32(Slice(d, 8, 12)),
                                          !.origLength = U32(Slice(d, 12, 16)),
                                          !.checkSum = UnpackL(Slice(d, 16, 20))]

\* self.tables[Tag(entry.tag)] = entry
SetTable(tables, e) ==
    IF HasTable(tables, e.tag)
    THEN [i \in 1..Len(tables) |-> IF tables[i].tag = e.tag THEN e ELSE tables[i]]
    ELSE Append(tables, e)

\* SFNTReader._readDirectoryEntries: i entries are read, pos is the file position
RECURSIVE readDirectoryEntries(_, _, _, _, _, _)
readDirectoryEntries(flavor, f, pos, i, numTables, tables) ==
    IF i = numTables THEN [ok |-> TRUE, tables |-> tables]
    ELSE LET d == ReadAt(f, pos, formatSize(flavor))
         IN  IF Len(d) # formatSize(flavor) THEN [ok |-> FALSE, err |-> "struct.error"]
             ELSE readDirectoryEntries(flavor, f, pos + formatSize(flavor), i + 1,
                      numTables, SetTable(tables, entryFromString(flavor, d)))

sfntVersions_withXml ==
    {<<0, 1, 0, 0>>, <<79, 84, 84, 79>>, <<116, 114, 117, 101>>, <<60, 63, 120, 109>>}

\* the sfntVersion values readDirectory accepts: 00 01 00 00, 'OTTO', 'true'
sfntVersions == {<<0, 1, 0, 0>>, <<79, 84, 84, 79>>, <<116, 114, 117, 101>>}

\* the header fields sstruct.unpack(self.directoryFormat, data, self) sets
unpackDirectory(flavor, d) ==
    IF flavor = "sfnt"
    THEN [sfntVersion |-> Slice(d, 0, 4), numTables |-> UnpackH(Slice(d, 4, 6)),
          length |-> 0, metaOffset |-> 0, metaLength |-> 0, metaOrigLength |-> 0,
          privOffset |-> 0, privLength |-> 0]
    ELSE [sfntVersion |-> Slice(d, 4, 8), numTables |-> UnpackH(Slice(d, 12, 14)),
          length |-> U32(Slice(d, 8, 12)),
          metaOffset |-> U32(Slice(d, 24, 28)), metaLength |-> U32(Slice(d, 28, 32)),
          metaOrigLength |-> U32(Slice(d, 32, 36)),
          privOffset |-> U32(Slice(d, 36, 40)), privLength |-> U32(Slice(d, 40, 44))]

\* WOFFFlavorData.__init__(reader)
readFlavorData(f, hdr) ==
    LET rawMeta == ReadAt(f, hdr.metaOffset, hdr.metaLength)
        meta == zlibDecompress(rawMeta)
        priv == ReadAt(f, hdr.privOffset, hdr.privLength)
    IN  IF hdr.metaLength # 0 /\ Len(rawMeta) # hdr.metaLength
        THEN [ok |-> FALSE, err |-> "AssertionError"]
        ELSE IF hdr.metaLength # 0 /\ ~meta.ok THEN meta
        ELSE IF hdr.metaLength # 0 /\ Len(meta.data) # hdr.metaOrigLength
        THEN [ok |-> FALSE, err |-> "AssertionError"]
        ELSE IF hdr.privLength # 0 /\ Len(priv) # hdr.privLength
        THEN [ok |-> FALSE, err |-> "AssertionError"]
        ELSE [ok |-> TRUE,
              metaData |-> IF hdr.metaLength # 0 THEN meta.data ELSE <<>>,
              privData |-> IF hdr.privLength # 0 THEN priv ELSE <<>>]

\* SFNTReader.__init__ / WOFFReader.__init__ with readDirectory
NewReaderOfClass(flavor, f, checkChecksums) ==
    LET d == ReadAt(f, 0, directorySize(flavor))
        hdr == unpackDirectory(flavor, d)
        entries == readDirectoryEntries(flavor, f, directorySize(flavor), 0,
                       hdr.numTables, <<>>)
        fd == readFlavorData(f, hdr)
    IN  IF Len(d) # directorySize(flavor)
        THEN FailedReader("Not a TrueType or OpenType font (not enough data)")
        ELSE IF hdr.sfntVersion \notin sfntVersions
        THEN FailedReader("Not a TrueType or OpenType font (bad sfntVersion)")
        ELSE IF ~entries.ok THEN FailedReader(entries.err)
        ELSE IF flavor = "woff" /\ hdr.length # Len(f)
        THEN FailedReader("reported 'length' doesn't match the actual file size")
        ELSE IF flavor = "woff" /\ ~fd.ok THEN FailedReader(fd.err)
        ELSE [open |-> TRUE, ok |-> TRUE, flavor |-> flavor,
              checkChecksums |-> checkChecksums, sfntVersion |-> hdr.sfntVersion,
              numTables |-> hdr.numTables, tables |-> entries.tables,
              metaData |-> IF flavor = "woff" THEN fd.metaData ELSE <<>>,
              privData |-> IF flavor = "woff" THEN fd.privData ELSE <<>>]

\* SFNTReader.__init__ or WOFFReader.__init__, as the first four bytes say
NewReader(f, checkChecksums) == NewReaderOfClass(readerClass(f), f, checkChecksums)

NoFetch == [tag |-> <<>>, ok |-> FALSE, data |-> <<>>, err |-> "none", warned |-> FALSE]

\* DirectoryEntry.loadData
loadData(flavor, entry, f) ==
    LET raw == ReadAt(f, entry.offset, entry.length)
    IN  IF Len(raw) # entry.length THEN [ok |-> FALSE, err |-> "AssertionError"]
        ELSE decodeData(flavor, entry, raw)

getitem_barfAlways(r, f, tag) ==
    LET entry == TableOf(r.tables, tag)
        loaded == loadData(r.flavor, entry, f)
        checksum == tableChecksum(tag, loaded.data)
    IN  IF ~loaded.ok
        THEN [NoFetch EXCEPT !.tag = tag, !.err = loaded.err]
        ELSE IF r.checkChecksums > 0 /\ checksum # entry.checkSum
        THEN [NoFetch EXCEPT !.tag = tag, !.err = "bad checksum"]
        ELSE [tag |-> tag, ok |-> TRUE, data |-> loaded.data, err |-> "none",
              warned |-> FALSE]

\* SFNTReader.__getitem__
getitem(r, f, tag) ==
    LET entry == TableOf(r.tables, tag)
        loaded == loadData(r.flavor, entry, f)
        checksum == tableChecksum(tag, loaded.data)
    IN  IF ~loaded.ok
        THEN [NoFetch EXCEPT !.tag = tag, !.err = loaded.err]
        ELSE IF r.checkChecksums > 1 /\ checksum # entry.checkSum
        THEN [NoFetch EXCEPT !.tag = tag, !.err = "bad checksum"]
        ELSE [tag |-> tag, ok |-> TRUE, data |-> loaded.data, err |-> "none",
              warned |-> r.checkChecksums = 1 /\ checksum # entry.checkSum]

(***************************************************************************)
(* The WOFF2 Reader, the collection Reader and the entry point.             *)
(***************************************************************************)
woff2DirectoryEntryMaxSize == 15

\* WOFF2DirectoryEntry.fromString from self.origLength, data = unpackBase128(data)
woff2EntryLengths(flags, tag, data) ==
    LET orig == unpackBase128(data)
        transformed == unpackBase128(orig.rest)
    IN  IF ~orig.ok THEN orig
        ELSE IF tag \notin woff2TransformedTableTags
        THEN [ok |-> TRUE, left |-> orig.rest,
              entry |-> [NewEntry(tag) EXCEPT !.flags = flags,
                                              !.origLength = WToInt(orig.value),
                                              !.length = WToInt(orig.value)]]
        ELSE IF ~transformed.ok THEN transformed
        ELSE IF tag = TagLoca /\ transformed.value # <<0, 0>>
        THEN [ok |-> FALSE, err |-> "the transformLength of the loca table must be 0"]
        ELSE [ok |-> TRUE, left |-> transformed.rest,
              entry |-> [NewEntry(tag) EXCEPT !.flags = flags,
                                              !.origLength = WToInt(orig.value),
                                              !.length = WToInt(transformed.value)]]

\* WOFF2DirectoryEntry.fromString: the entry and the bytes left over
woff2EntryFromString(data) ==
    IF Len(data) < 1 THEN [ok |-> FALSE, err |-> "struct.error"]
    ELSE IF data[1] % 64 = 63 /\ Len(data) < 5 THEN [ok |-> FALSE, err |-> "struct.error"]
    ELSE IF data[1] \div 64 # 0
    THEN [ok |-> FALSE, err |-> "bits 6-7 are reserved and must be 0"]
    ELSE IF data[1] % 64 = 63
    THEN woff2EntryLengths(data[1], Slice(data, 1, 5), From(data, 5))
    ELSE woff2EntryLengths(data[1], woff2KnownTags[(data[1] % 64) + 1], From(data, 1))

\* WOFF2DirectoryEntry.fromFile at the position pos of the file: the entry
\* and the position the file is left at
woff2EntryFromFile(f, pos) ==
    LET data == ReadAt(f, pos, woff2DirectoryEntryMaxSize)
        r == woff2EntryFromString(data)
    IN  IF ~r.ok THEN r
        ELSE [ok |-> TRUE, entry |-> r.entry, pos |-> pos + (Len(data) - Len(r.left))]

\* WOFF2Reader._readDirectoryEntries: i entries are read, pos is the file
\* position and offset the sum of the lengths of the entries read
RECURSIVE woff2ReadDirectoryEntries(_, _, _, _, _, _)
woff2ReadDirectoryEntries(f, pos, i, numTables, tables, offset) ==
    IF i = numTables
    THEN [ok |-> TRUE, tables |-> tables, compressedDataOffset |-> pos]
    ELSE LET data == ReadAt(f, pos, woff2DirectoryEntryMaxSize)
             r == woff2EntryFromString(data)
         IN  IF ~r.ok THEN r
             ELSE woff2ReadDirectoryEntries(f, pos + (Len(data) - Len(r.left)), i + 1,
                      numTables, SetTable(tables, [r.entry EXCEPT !.offset = offset]),
                      offset + r.entry.length)

\* sstruct.unpack(woff2DirectoryFormat, data, self)
unpackWoff2Directory(d) ==
    [sfntVersion |-> Slice(d, 4, 8), length |-> U32(Slice(d, 8, 12)),
     numTables |-> UnpackH(Slice(d, 12, 14)),
     totalCompressedSize |-> U32(Slice(d, 20, 24)),
     metaOffset |-> U32(Slice(d, 28, 32)), metaLength |-> U32(Slice(d, 32, 36)),
     metaOrigLength |-> U32(Slice(d, 36, 40)),
     privOffset |-> U32(Slice(d, 40, 44)), privLength |-> U32(Slice(d, 44, 48))]

\* WOFF2FlavorData.__init__(reader): WOFFFlavorData.__init__ with brotli
readWoff2FlavorData(f, hdr) ==
    LET rawMeta == ReadAt(f, hdr.metaOffset, hdr.metaLength)
        meta == brotliDecompress(rawMeta)
        priv == ReadAt(f, hdr.privOffset, hdr.privLength)
    IN  IF hdr.metaLength # 0 /\ Len(rawMeta) # hdr.metaLength
        THEN [ok |-> FALSE, err |-> "AssertionError"]
        ELSE IF hdr.metaLength # 0 /\ ~meta.ok THEN meta
        ELSE IF hdr.metaLength # 0 /\ Len(meta.data) # hdr.metaOrigLength
        THEN [ok |-> FALSE, err |-> "AssertionError"]
        ELSE IF hdr.privLength # 0 /\ Len(priv) # hdr.privLength
        THEN [ok |-> FALSE, err |-> "AssertionError"]
        ELSE [ok |-> TRUE,
              metaData |-> IF hdr.metaLength # 0 THEN meta.data ELSE <<>>,
              privData |-> IF hdr.privLength # 0 THEN priv ELSE <<>>]

\* sum([entry.length for entry in self.tables.values()])
RECURSIVE SumEntryLengths(_, _)
SumEntryLengths(tables, i) ==
    IF i > Len(tables) THEN 0 ELSE tables[i].length + SumEntryLengths(tables, i + 1)

\* WOFF2Reader.__init__ after the directory is read
woff2ReaderRest(f, checkChecksums, hdr, entries) ==
    LET fd == readWoff2FlavorData(f, hdr)
        decompressed == brotliDecompress(
            ReadAt(f, entries.compressedDataOffset, hdr.totalCompressedSize))
    IN  IF hdr.length # Len(f)
        THEN FailedReader("reported 'length' doesn't match the actual file size")
        ELSE IF ~fd.ok THEN FailedReader(fd.err)
        ELSE IF ~decompressed.ok THEN FailedReader(decompressed.err)
        ELSE IF Len(decompressed.data) # SumEntryLengths(entries.tables, 1)
        THEN FailedReader("unexpected size for decompressed font data")
        ELSE [open |-> TRUE, ok |-> TRUE, flavor |-> "woff2",
              checkChecksums |-> checkChecksums, sfntVersion |-> hdr.sfntVersion,
              numTables |-> hdr.numTables, tables |-> entries.tables,
              metaData |-> fd.metaData, privData |-> fd.privData,
              transformBuffer |-> decompressed.data]

\* WOFF2Reader.__init__
NewWoff2Reader(f, checkChecksums) ==
    LET d == ReadAt(f, 0, woff2DirectorySize)
    IN  IF Len(d) # woff2DirectorySize
        THEN FailedReader("Not a TrueType or OpenType font (not enough data)")
        ELSE IF unpackWoff2Directory(d).sfntVersion \notin sfntVersions
        THEN FailedReader("Not a TrueType or OpenType font (bad sfntVersion)")
        ELSE LET entries == woff2ReadDirectoryEntries(f, woff2DirectorySize, 0,
                                unpackWoff2Directory(d).numTables, <<>>, 0)
             IN  IF ~entries.ok THEN FailedReader(entries.err)
                 ELSE woff2ReaderRest(f, checkChecksums, unpackWoff2Directory(d), entries)

ttcHeaderSize == 12

\* struct.unpack(">%dL" % numFonts, offsetTableData)
unpackOffsetTable(data, numFonts) ==
    [i \in 1..numFonts |-> U32(Slice(data, 4 * (i - 1), 4 * i))]

\* SFNTCollectionReader._readCollectionHeader; the file position is 0
readCollectionHeader(f) ==
    LET header == ReadAt(f, 0, ttcHeaderSize)
        numFonts == U32(Slice(header, 8, 12))
        offsetTableData == ReadAt(f, ttcHeaderSize, 4 * numFonts)
    IN  IF ReadAt(f, 0, 4) # <<116, 116, 99, 102>>
        THEN [ok |-> FALSE, err |-> "Not a Font Collection (bad TTCTag)"]
        ELSE IF Len(header) # ttcHeaderSize
        THEN [ok |-> FALSE, err |-> "struct.error"]
        ELSE IF UnpackL(Slice(header, 4, 8)) \notin {<<1, 0>>, <<2, 0>>}
        THEN [ok |-> FALSE, err |-> "unrecognized TTC version"]
        ELSE IF Len(offsetTableData) # 4 * numFonts
        THEN [ok |-> FALSE, err |-> "Not a Font Collection (not enough data)"]
        ELSE [ok |-> TRUE, numFonts |-> numFonts,
              offsetTables |-> unpackOffsetTable(offsetTableData, numFonts)]

\* SFNTReader.readDirectory of the SFNT format with the file position at pos,
\* for a reader of the class flavor
readDirectoryAt(flavor, f, pos, checkChecksums) ==
    LET d == ReadAt(f, pos, sfntDirectorySize)
        hdr == unpackDirectory("sfnt", d)
        entries == readDirectoryEntries("sfnt", f, pos + sfntDirectorySize, 0,
                       hdr.numTables, <<>>)
    IN  IF Len(d) # sfntDirectorySize
        THEN FailedReader("Not a TrueType or OpenType font (not enough data)")
        ELSE IF hdr.sfntVersion \notin sfntVersions
        THEN FailedReader("Not a TrueType or OpenType font (bad sfntVersion)")
        ELSE IF ~entries.ok THEN FailedReader(entries.err)
        ELSE [open |-> TRUE, ok |-> TRUE, flavor |-> flavor,
              checkChecksums |-> checkChecksums, sfntVersion |-> hdr.sfntVersion,
              numTables |-> hdr.numTables, tables |-> entries.tables,
              metaData |-> <<>>, privData |-> <<>>]

\* SFNTCollectionReader.__init__ with seekOffsetTable
NewCollectionReader(f, checkChecksums, fontNumber) ==
    LET header == readCollectionHeader(f)
    IN  IF ~header.ok THEN FailedReader(header.err)
        ELSE IF fontNumber = -1 THEN FailedReader("NotImplementedError")
        ELSE IF ~(0 <= fontNumber /\ fontNumber < header.numFonts)
        THEN FailedReader("specify a font number between 0 and numFonts - 1 (inclusive)")
        ELSE readDirectoryAt("ttc", f, header.offsetTables[fontNumber + 1],
                             checkChecksums)

\* SFNTReader(file, checkChecksums, fontNumber): __new__ picks the class and
\* the __init__ of the class runs; the Brotli module is installed
SFNTReader(f, checkChecksums, fontNumber) ==
    [class |-> readerClass(f)] @@
    (IF readerClass(f) = "woff2" THEN NewWoff2Reader(f, checkChecksums)
     ELSE IF readerClass(f) = "ttc" THEN NewCollectionReader(f, checkChecksums, fontNumber)
     ELSE NewReader(f, checkChecksums))

\* the file names guessFileType tells apart: a stream without a name, a name
\* with the extension .dfont and any other name (no Mac file type)
FileNames == {"", "font.ttf", "font.dfont"}

\* head.lower() of a tag
Lower(tag) == [i \in 1..Len(tag) |-> IF tag[i] \in 65..90 THEN tag[i] + 32 ELSE tag[i]]

\* opentypeheaderRE.search(header): sfntVersion= and OTTO between quotes
opentypeheaderRE(header) ==
    \E i \in 0..Len(header) :
        /\ Slice(header, i, i + 12) =
               <<115, 102, 110, 116, 86, 101, 114, 115, 105, 111, 110, 61>>
        /\ Len(header) >= i + 18
        /\ header[i + 13] \in {34, 39}
        /\ Slice(header, i + 13, i + 17) = <<79, 84, 84, 79>>
        /\ header[i + 18] \in {34, 39}

\* guessFileType of the package ttLib/sfnt on a file with the name fileName
guessFileType(f, fileName) ==
    LET head == Slice(f, 0, 4)
    IN  IF fileName = "font.dfont" THEN "TTF"
        ELSE IF head = <<79, 84, 84, 79>> THEN "OTF"
        ELSE IF head = <<116, 116, 99, 102>> THEN "TTC"
        ELSE IF head \in {<<0, 1, 0, 0>>, <<116, 114, 117, 101>>} THEN "TTF"
        ELSE IF head = <<119, 79, 70, 70>> THEN "WOFF"
        ELSE IF head = <<119, 79, 70, 50>> THEN "WOFF2"
        ELSE IF Lower(head) = <<60, 63, 120, 109>>
        THEN IF opentypeheaderRE(Slice(f, 0, 256)) THEN "OTX" ELSE "TTX"
        ELSE "None"

\* SFNTReader.__new__ of the package ttLib/sfnt: the class of the new object
packageNew(f, fileName) ==
    IF guessFileType(f, fileName) = "TTC" THEN [class |-> "ttc", err |-> "ok"]
    ELSE IF guessFileType(f, fileName) = "WOFF" THEN [class |-> "woff", err |-> "ok"]
    ELSE IF guessFileType(f, fileName) = "WOFF2" THEN [class |-> "woff2", err |-> "ok"]
    ELSE IF guessFileType(f, fileName) \in {"TTF", "OTF"}
    THEN [class |-> "sfnt", err |-> "ok"]
    ELSE [class |-> "none", err |-> "Unsupported file type"]

\* SFNTReader.tableOrder: sorted(self.tables.keys(), key=offset).  The sort
\* is stable and self.tables is a dict, so tables of the same offset come in
\* the order of the keys of the dict, which is the order of the directory or
\* any other order, as the interpreter has it: the set of the lists that
\* tableOrder can be
tableOrder(tables) ==
    {[i \in 1..Len(tables) |-> tables[p[i]].tag] :
        p \in {q \in [1..Len(tables) -> 1..Len(tables)] :
                  /\ \A i, j \in 1..Len(tables) : q[i] = q[j] => i = j
                  /\ \A i, j \in 1..Len(tables) :
                        i < j => tables[q[i]].offset <= tables[q[j]].offset}}

\* SFNTReader(file, checkChecksums) of ttLib/sfnt.py with the file position
\* at pos: __new__ reads four bytes there and seeks to 0, and the __init__ of
\* the class reads from 0
sfntReaderAt(f, pos, checkChecksums) ==
    [class |-> readerClass(From(f, pos))] @@
    (IF readerClass(From(f, pos)) = "woff2" THEN NewWoff2Reader(f, checkChecksums)
     ELSE IF readerClass(From(f, pos)) = "ttc" THEN NewCollectionReader(f, checkChecksums, -1)
     ELSE NewReaderOfClass(readerClass(From(f, pos)), f, checkChecksums))

\* SFNTReader(file, checkChecksums) of the package ttLib/sfnt on a file that
\* starts with 'ttcf', with the file position at pos: guessFileType looks at
\* the name and at the start of the file and keeps the position, and the
\* __init__ of the class reads from pos
packageReaderAt(f, fileName, pos, checkChecksums) ==
    [class |-> packageNew(f, fileName).class] @@
    (IF packageNew(f, fileName).class = "sfnt"
     THEN readDirectoryAt("sfnt", f, pos, checkChecksums)
     ELSE IF ReadAt(f, pos, 4) # <<116, 116, 99, 102>>
     THEN FailedReader("Not a Font Collection (bad TTCTag)")
     ELSE NewCollectionReader(f, checkChecksums, -1))

\* the loop of TTCollection.__init__ from font i on: seekOffsetTable(i) and
\* font.reader = SFNTReader(file, self.reader.checkChecksums)
RECURSIVE collectionFonts(_, _, _, _, _, _, _)
collectionFonts(f, checkChecksums, package, fileName, header, i, fonts) ==
    IF i = header.numFonts THEN [ok |-> TRUE, err |-> "ok", fonts |-> fonts]
    ELSE LET r == IF package
                  THEN packageReaderAt(f, fileName, header.offsetTables[i + 1],
                                       checkChecksums)
                  ELSE sfntReaderAt(f, header.offsetTables[i + 1], checkChecksums)
         IN  IF ~r.ok THEN [ok |-> FALSE, err |-> r.err, fonts |-> fonts]
             ELSE collectionFonts(f, checkChecksums, package, fileName, header, i + 1,
                                  Append(fonts, r))

\* TTCollection(file, checkChecksums=checkChecksums): TTCReader reads the
\* header of the collection, then there is a reader for every font; package
\* says that SFNTReader is the class of the package ttLib/sfnt and not the
\* class of ttLib/sfnt.py
TTCollection(f, checkChecksums, package, fileName) ==
    LET header == readCollectionHeader(f)
    IN  IF ~header.ok THEN [ok |-> FALSE, err |-> header.err, fonts |-> <<>>]
        ELSE collectionFonts(f, checkChecksums, package, fileName, header, 0, <<>>)

\* WOFF2Reader.__getitem__ for a table that is not transformed
woff2Getitem(r, tag) ==
    LET entry == TableOf(r.tables, tag)
        loaded == loadData("woff2", entry, r.transformBuffer)
    IN  IF ~loaded.ok
        THEN [NoFetch EXCEPT !.tag = tag, !.err = loaded.err]
        ELSE [tag |-> tag, ok |-> TRUE, data |-> loaded.data, err |-> "none",
              warned |-> FALSE]


(***************************************************************************)
(* The inputs of the model.                                                 *)
(***************************************************************************)
\* 'ZZZZ' < 'cmap' < 'head' in the order of sorted()
Tags == {TagHead, TagCmap, TagZZZZ}

\* 'head' payloads of 4, 8, 10, 12 and 14 bytes; bytes 4..7 are fontRevision
\* and bytes 8..11, where present, the checkSumAdjustment
HeadPayloads ==
    {<<0, 1, 0, 0>>,
     <<0, 1, 0, 0, 0, 2, 0, 3>>,
     <<0, 1, 0, 0, 0, 2, 0, 3, 9, 9>>,
     <<0, 1, 0, 0, 0, 2, 0, 3, 9, 9, 9, 9>>,
     <<0, 1, 0, 0, 0, 2, 0, 3, 9, 9, 9, 9, 95, 15>>}

\* an empty table, one that zlib does not shrink (5 bytes, not a multiple of
\* 4) and one that it does
OtherPayloads ==
    {<<>>, <<1, 1, 1, 1, 2>>, <<7, 7, 7, 7, 7, 7, 7, 7>>}

Payloads(tag) == IF tag = TagHead THEN HeadPayloads ELSE OtherPayloads

\* no flavor data, metadata with private data, metadata only and private
\* data only
FlavorDatas ==
    {NoFlavorData,
     [majorVersion |-> 1, minorVersion |-> 0,
      metaData |-> <<60, 60, 60, 62>>, privData |-> <<80, 80, 80>>],
     [majorVersion |-> 1, minorVersion |-> 0,
      metaData |-> <<60, 60, 60, 62>>, privData |-> <<>>],
     [majorVersion |-> 1, minorVersion |-> 0,
      metaData |-> <<>>, privData |-> <<80, 80, 80>>]}

CheckModes == {0, 1, 2}

\* how often close() of a WOFF2 Writer may fail after it has written the
\* table data to its transformBuffer (each such call appends to the buffer)
MaxPartialCloses == 2

NoOp == [op |-> "new", tag |-> <<>>]

NoCodec == [op |-> "none", done |-> TRUE]

(***************************************************************************)
(* The life of a Writer and of a Reader on its output.                      *)
(***************************************************************************)
Init ==
    /\ \E flavor \in Flavors, n \in 1..MaxTables, fd \in FlavorDatas :
          /\ (flavor = "sfnt" => fd = NoFlavorData)
          /\ writer = NewWriter(flavor, n, <<0, 1, 0, 0>>, fd)
    /\ file = <<>>
    /\ puts = <<>>
    /\ partialCloses = 0
    /\ lastOp = NoOp
    /\ result = "ok"
    /\ reader = NoReader
    /\ fetched = NoFetch
    /\ codec = NoCodec

\* writer[tag] = data
Put(tag, data) ==
    /\ ~writer.closed
    /\ LET r == setitem(writer, file, tag, data)
       IN  /\ writer' = r.w
           /\ file' = r.file
           /\ result' = r.err
           /\ puts' = IF r.err = "ok" THEN Append(puts, <<tag, data>>) ELSE puts
    /\ lastOp' = [op |-> "put", tag |-> tag]
    /\ UNCHANGED <<partialCloses, reader, fetched, codec>>

\* writer.close()
Close ==
    /\ ~writer.closed
    /\ partialCloses < MaxPartialCloses
    /\ LET r == close(writer, file)
       IN  /\ writer' = r.w
           /\ file' = r.file
           /\ result' = r.err
           /\ partialCloses' = IF r.w.transformBuffer # writer.transformBuffer /\ r.err # "ok"
                               THEN partialCloses + 1 ELSE partialCloses
    /\ lastOp' = [op |-> "close", tag |-> <<>>]
    /\ UNCHANGED <<puts, reader, fetched, codec>>

\* reader = SFNTReader(file, checkChecksums), on the output of a Writer
OpenReader(checkChecksums) ==
    /\ writer.closed
    /\ ~reader.open
    /\ reader' = SFNTReader(file, checkChecksums, -1)
    /\ lastOp' = [op |-> "open", tag |-> <<>>]
    /\ result' = IF reader'.ok THEN "ok" ELSE reader'.err
    /\ UNCHANGED <<writer, file, puts, partialCloses, fetched, codec>>

\* reader[tag]
GetItem(tag) ==
    /\ reader.open
    /\ reader.ok
    /\ HasTable(reader.tables, tag)
    /\ fetched' = IF reader.flavor = "woff2" THEN woff2Getitem(reader, tag)
                   ELSE getitem(reader, file, tag)
    /\ lastOp' = [op |-> "get", tag |-> tag]
    /\ result' = IF fetched'.ok THEN "ok" ELSE fetched'.err
    /\ UNCHANGED <<writer, file, puts, partialCloses, reader, codec>>

Next ==
    \/ \E tag \in Tags : \E data \in Payloads(tag) : Put(tag, data)
    \/ Close
    \/ \E checkChecksums \in CheckModes : OpenReader(checkChecksums)
    \/ \E tag \in Tags : GetItem(tag)

Spec == Init /\ [][Next]_vars

(***************************************************************************)
(* Properties of the Writers and of the Readers on their output.           *)
(***************************************************************************)
\* the data that was put under tag
PutData(tag) == puts[CHOOSE i \in 1..Len(puts) : puts[i][1] = tag][2]

\* a and b are equal, but for bytes 8..11 when the table is 'head'
SameExceptAdjustment(tag, a, b) ==
    /\ Len(a) = Len(b)
    /\ \A i \in 1..Len(a) : (tag = TagHead /\ i \in 9..12) \/ a[i] = b[i]

\* the orders in which the tables of ps can be put
Orders(ps) ==
    {[i \in 1..Len(ps) |-> ps[p[i]]] :
        p \in {q \in [1..Len(ps) -> 1..Len(ps)] :
                  \A i, j \in 1..Len(ps) : q[i] = q[j] => i = j}}

\* ps in ascending tag order
SortedPuts(ps) ==
    CHOOSE q \in Orders(ps) :
        \A i, j \in 1..Len(q) : i < j => TagLess(q[i][1], q[j][1])

\* a Writer after the puts ps, in this order
RECURSIVE PutAll(_, _)
PutAll(r, ps) ==
    IF Len(ps) = 0 THEN r
    ELSE CHOOSE done \in {PutAll(next, Tail(ps)) :
                            next \in {setitem(r.w, r.file, Head(ps)[1], Head(ps)[2])}} :
             TRUE

CloseOutcome(r) == CHOOSE done \in {close(q.w, q.file) : q \in {r}} : TRUE

\* the outcome of close() of a new Writer of the flavor that was given the
\* puts ps in this order
Output(flavor, flavorData, ps) ==
    CloseOutcome(PutAll(Outcome(NewWriter(flavor, Len(ps), writer.sfntVersion,
                                          flavorData), <<>>, "ok"), ps))

\* the four bytes an SFNT Writer given the puts ps patches into 'head'
SfntPatched(ps) ==
    CHOOSE patch \in {ReadAt(r.file, AdjustmentOffset(r.w), 4) :
                         r \in {Output("sfnt", NoFlavorData, ps)}} : TRUE

RECURSIVE SumPutChecksums(_)
SumPutChecksums(ps) ==
    IF Len(ps) = 0 THEN <<0, 0>>
    ELSE Add32(tableChecksum(Head(ps)[1], Head(ps)[2]), SumPutChecksums(Tail(ps)))

PutTags == {puts[i][1] : i \in 1..Len(puts)}

\* C1: after an SFNT or WOFF Writer is closed, a Reader opened on the output
\* returns for every tag that was put exactly the bytes that were put; only
\* bytes 8..11 of 'head' may differ.
C1_RoundTrip ==
    (writer.closed /\ reader.open) =>
        /\ reader.ok
        /\ \A tag \in PutTags : HasTable(reader.tables, tag)
        /\ (lastOp.op = "get" =>
               /\ fetched.ok
               /\ SameExceptAdjustment(fetched.tag, fetched.data, PutData(fetched.tag)))

\* the round trip of C1 for the fonts whose 'head', if there is one, has at
\* least 12 bytes
RoundTripOfLongHead ==
    (TagHead \in PutTags => Len(PutData(TagHead)) >= 12) => C1_RoundTrip

\* C2: after close() of an SFNT Writer with a 'head' of at least 12 bytes,
\* bytes 8..11 of the stored head are (0xB1B0AFBA - S) mod 2^32, S the sum of
\* the tables' checksums (head's with bytes 8..11 zeroed) and the checksum of
\* the written directory, and the checksum of the whole file is 0xB1B0AFBA.
C2_CheckSumAdjustment ==
    (/\ writer.flavor = "sfnt"
     /\ writer.closed
     /\ TagHead \in PutTags
     /\ Len(PutData(TagHead)) >= 12) =>
        /\ ReadAt(file, TableOf(writer.tables, TagHead).offset + 8, 4)
              = PackL(Sub32(ChecksumMagic,
                        Add32(SumPutChecksums(puts),
                              calcChecksum(ReadAt(file, 0,
                                  sfntDirectorySize
                                  + sfntDirectoryEntrySize * writer.numTables)))))
        /\ calcChecksum(file) = ChecksumMagic

C2_Witness ==
    /\ writer.flavor = "sfnt"
    /\ writer.closed
    /\ Len(puts) = 2
    /\ puts[1] = <<TagHead, <<0, 1, 0, 0, 0, 2, 0, 3, 9, 9, 9, 9, 95, 15>>>>
    /\ puts[2][2] = <<1, 1, 1, 1, 2>>
    /\ calcChecksum(file) = ChecksumMagic
    /\ ReadAt(file, TableOf(writer.tables, TagHead).offset + 8, 4) # <<9, 9, 9, 9>>

\* C3: the checkSumAdjustment a WOFF Writer patches into head is the one an
\* SFNT Writer patches for the same puts in the same order, and the one a
\* WOFF2 Writer patches is the one an SFNT Writer patches for the same tables
\* put in ascending tag order.
C3_AdjustmentAcrossFlavors ==
    (writer.closed /\ TagHead \in PutTags) =>
        /\ writer.flavor = "woff" =>
              /\ PackL(calcMasterChecksum(writer, <<>>)) = SfntPatched(puts)
              /\ Len(PutData(TagHead)) >= 12 =>
                    ReadAt(file, AdjustmentOffset(writer), 4) = SfntPatched(puts)
        /\ writer.flavor = "woff2" =>
              ReadAt(writer.transformBuffer, AdjustmentOffset(writer), 4)
                 = SfntPatched(SortedPuts(puts))

C3_Witness ==
    /\ writer.flavor = "woff2"
    /\ writer.closed
    /\ Len(puts) = 2
    /\ puts[1][1] = TagHead
    /\ puts[2] = <<TagCmap, <<7, 7, 7, 7, 7, 7, 7, 7>>>>
    /\ ReadAt(writer.transformBuffer, AdjustmentOffset(writer), 4) = SfntPatched(SortedPuts(puts))
    /\ SfntPatched(SortedPuts(puts)) # SfntPatched(puts)

\* the tag, checkSum and length of each entry, in the order of the directory
DirectoryOf(tables) ==
    [i \in 1..Len(tables) |->
        <<SortByTag(tables)[i].tag, SortByTag(tables)[i].checkSum,
          SortByTag(tables)[i].length>>]

\* the table data lie one after the other, each padded to a multiple of 4
\* bytes, in the order of the puts ps, from the end of the directory on
RECURSIVE InPutOrder(_, _, _)
InPutOrder(tables, ps, offset) ==
    \/ Len(ps) = 0
    \/ /\ TableOf(tables, Head(ps)[1]).offset = offset
       /\ InPutOrder(tables, Tail(ps),
                     offset + Align4(TableOf(tables, Head(ps)[1]).length))

\* the Writer was closed by the first close() that got as far as the table data
ClosedAtOnce == writer.closed /\ partialCloses = 0

\* C4 as the spec states it: the order of the puts does not affect the
\* output of a Writer of any flavor.
C4_OrderIndependent ==
    ClosedAtOnce =>
        \A ps \in Orders(puts) :
            Output(writer.flavor, writer.flavorData, ps).file = file

\* C4: the output of a WOFF2 Writer is the same for every order of the puts;
\* an SFNT or WOFF Writer writes the same directory for every order (entries
\* in ascending tag order with the same checkSum and length), and lays the
\* table data out in the order of the puts.
C4_OrderOfPuts ==
    ClosedAtOnce =>
        /\ file = Output(writer.flavor, writer.flavorData, puts).file
        /\ \A ps \in Orders(puts) :
              \A out \in {Output(writer.flavor, writer.flavorData, ps)} :
                 IF writer.flavor = "woff2"
                 THEN out.file = file
                 ELSE /\ DirectoryOf(out.w.tables) = DirectoryOf(writer.tables)
                      /\ InPutOrder(out.w.tables, ps,
                                    directorySize(writer.flavor)
                                    + Len(ps) * formatSize(writer.flavor))

C4_Witness ==
    /\ ClosedAtOnce
    /\ writer.flavor = "woff2"
    /\ Len(puts) = 2
    /\ puts[1][1] = TagHead
    /\ puts[2][1] = TagZZZZ
    /\ Len(file) > woff2DirectorySize
    /\ Output("woff2", writer.flavorData, SortedPuts(puts)).file = file
    /\ Output("sfnt", NoFlavorData, SortedPuts(puts)).file
          # Output("sfnt", NoFlavorData, puts).file

\* C5: a put for a tag that has already been written fails with 'cannot
\* rewrite' and leaves the Writer (its tables, their entries, nextTableOffset)
\* and the output stream as they were before the call.
C5_NoRewrite ==
    [][(lastOp'.op = "put" /\ lastOp'.tag \in PutTags) =>
          /\ result' = "cannot rewrite"
          /\ writer' = writer
          /\ file' = file
          /\ puts' = puts]_vars

C5_Witness ==
    /\ lastOp = [op |-> "put", tag |-> TagHead]
    /\ result = "cannot rewrite"
    /\ TagHead \in PutTags
    /\ Len(file) > 0

\* C6: close() succeeds only if the number of distinct tables written is the
\* numTables given at construction; otherwise it fails with 'wrong number of
\* tables' and writes neither directory nor header.
C6_NumTables ==
    [][lastOp'.op = "close" =>
          IF Cardinality(PutTags) = writer.numTables
          THEN result' # "wrong number of tables"
          ELSE /\ result' = "wrong number of tables"
               /\ file' = file
               /\ writer' = writer
               /\ ReadAt(file', 0, directorySize(writer.flavor))
                     = Zeros(Len(ReadAt(file', 0, directorySize(writer.flavor))))]_vars

C6_Witness ==
    /\ lastOp.op = "close"
    /\ result = "wrong number of tables"
    /\ writer.numTables = 2
    /\ Cardinality(PutTags) = 1
    /\ Len(file) > 0

\* C7 as the spec states it: when a put or close() ends in an error, no byte
\* of the Writer's tables, directory or header is in the output stream.
C7_NothingWritten ==
    (lastOp.op \in {"put", "close"} /\ result # "ok") => file = <<>>

\* C7: a put or close() that ends in an error leaves the output stream as it
\* was before the call (the table data of the earlier puts of an SFNT or
\* WOFF Writer stay in it); the stream of a WOFF2 Writer is then still empty.
C7_FailedCallWritesNothing ==
    [][(lastOp'.op \in {"put", "close"} /\ result' # "ok") =>
          /\ file' = file
          /\ writer.flavor = "woff2" => file' = <<>>]_vars

C7_Witness ==
    /\ lastOp.op = "close"
    /\ result = "struct.error"
    /\ writer.flavor = "woff"
    /\ Len(puts) = 2
    /\ Len(file) > 0
    /\ ~writer.closed

(***************************************************************************)
(* The triplet coder of the 'glyf' transform.  A point is a record of its   *)
(* coordinates and its on-curve flag.                                       *)
(***************************************************************************)
Abs(x) == IF x < 0 THEN -x ELSE x

NewPoint(x, y, onCurve) == [x |-> x, y |-> y, onCurve |-> onCurve]

\* _encodeTriplets in a way that does not fit the flag to the byte count
encodeTriplet_longForm(x, y, onCurve) ==
    [flag |-> (IF onCurve # 0 THEN 0 ELSE 128) + 120
              + (IF x < 0 THEN 0 ELSE 1) + 2 * (IF y < 0 THEN 0 ELSE 1),
     triplets |-> <<Abs(x) \div 256, Abs(x) % 256, Abs(y) \div 256, Abs(y) % 256>>]

\* the body of the loop of _encodeTriplets for the relative coordinates
\* (x, y): the flag byte and the bytes of the glyph stream
encodeTriplet(x, y, onCurve) ==
    LET absX == Abs(x)
        absY == Abs(y)
        onCurveBit == IF onCurve # 0 THEN 0 ELSE 128
        xSignBit == IF x < 0 THEN 0 ELSE 1
        ySignBit == IF y < 0 THEN 0 ELSE 1
        xySignBits == xSignBit + 2 * ySignBit
    IN  IF x = 0 /\ absY < 1280
        THEN [flag |-> onCurveBit + ((absY \div 256) % 16) * 2 + ySignBit,
              triplets |-> <<absY % 256>>]
        ELSE IF y = 0 /\ absX < 1280
        THEN [flag |-> onCurveBit + 10 + ((absX \div 256) % 16) * 2 + xSignBit,
              triplets |-> <<absX % 256>>]
        ELSE IF absX < 65 /\ absY < 65
        THEN [flag |-> onCurveBit + 20 + (((absX - 1) \div 16) % 4) * 16
                       + (((absY - 1) \div 16) % 4) * 4 + xySignBits,
              triplets |-> <<((absX - 1) % 16) * 16 + ((absY - 1) % 16)>>]
        ELSE IF absX < 769 /\ absY < 769
        THEN [flag |-> onCurveBit + 84 + 12 * (((absX - 1) \div 256) % 4)
                       + (((absY - 1) \div 256) % 4) * 4 + xySignBits,
              triplets |-> <<(absX - 1) % 256, (absY - 1) % 256>>]
        ELSE IF absX < 4096 /\ absY < 4096
        THEN [flag |-> onCurveBit + 120 + xySignBits,
              triplets |-> <<absX \div 16, (absX % 16) * 16 + (absY \div 256),
                             absY % 256>>]
        ELSE [flag |-> onCurveBit + 124 + xySignBits,
              triplets |-> <<absX \div 256, absX % 256, absY \div 256, absY % 256>>]

\* _encodeTriplets: what it appends to the flagStream and to the glyphStream
\* for the points from i on
RECURSIVE encodeTriplets(_, _)
encodeTriplets(points, i) ==
    IF i > Len(points) THEN [flags |-> <<>>, triplets |-> <<>>]
    ELSE LET e == encodeTriplet(points[i].x, points[i].y, points[i].onCurve)
             r == encodeTriplets(points, i + 1)
         IN  [flags |-> <<e.flag>> \o r.flags, triplets |-> e.triplets \o r.triplets]

withSign(flag, baseval) == IF flag % 2 = 1 THEN baseval ELSE -baseval

\* the number of bytes of the glyph stream that go with the flag & 0x7f
tripletBytes(flag) ==
    IF flag < 84 THEN 1 ELSE IF flag < 120 THEN 2 ELSE IF flag < 124 THEN 3 ELSE 4

\* the body of the loop of _decodeTriplets: (dx, dy) from the flag & 0x7f and
\* the bytes t of the triplet
decodeTriplet(flag, t) ==
    IF flag < 10
    THEN [dx |-> 0, dy |-> withSign(flag, ((flag \div 2) % 8) * 256 + t[1])]
    ELSE IF flag < 20
    THEN [dx |-> withSign(flag, (((flag - 10) \div 2) % 8) * 256 + t[1]), dy |-> 0]
    ELSE IF flag < 84
    THEN [dx |-> withSign(flag, 1 + (((flag - 20) \div 16) % 4) * 16 + (t[1] \div 16)),
          dy |-> withSign(flag \div 2,
                          1 + (((flag - 20) \div 4) % 4) * 16 + (t[1] % 16))]
    ELSE IF flag < 120
    THEN [dx |-> withSign(flag, 1 + ((flag - 84) \div 12) * 256 + t[1]),
          dy |-> withSign(flag \div 2, 1 + (((flag - 84) % 12) \div 4) * 256 + t[2])]
    ELSE IF flag < 124
    THEN [dx |-> withSign(flag, t[1] * 16 + (t[2] \div 16)),
          dy |-> withSign(flag \div 2, (t[2] % 16) * 256 + t[3])]
    ELSE [dx |-> withSign(flag, t[1] * 256 + t[2]),
          dy |-> withSign(flag \div 2, t[3] * 256 + t[4])]

\* the loop of _decodeTriplets from point i on: the points read so far have
\* the absolute coordinates coordinates and end at (x, y)
RECURSIVE decodeTripletsLoop(_, _, _, _, _, _, _, _)
decodeTripletsLoop(flags, triplets, i, nPoints, tripletIndex, x, y, points) ==
    IF i = nPoints
    THEN [ok |-> TRUE, points |-> points, bytesConsumed |-> tripletIndex]
    ELSE IF tripletIndex + tripletBytes(flags[i + 1] % 128) > Len(triplets)
    THEN [ok |-> FALSE, err |-> "AssertionError"]
    ELSE LET d == decodeTriplet(flags[i + 1] % 128,
                      Slice(triplets, tripletIndex,
                            tripletIndex + tripletBytes(flags[i + 1] % 128)))
         IN  decodeTripletsLoop(flags, triplets, i + 1, nPoints,
                 tripletIndex + tripletBytes(flags[i + 1] % 128), x + d.dx, y + d.dy,
                 Append(points, [x |-> x + d.dx, y |-> y + d.dy,
                                 onCurve |-> IF flags[i + 1] \div 128 = 0 THEN 1 ELSE 0]))

\* _decodeTriplets for a glyph of nPoints points: the points with their
\* absolute coordinates and what is left of the two streams
decodeTriplets(nPoints, flagStream, glyphStream) ==
    IF nPoints > Len(flagStream)
    THEN [ok |-> FALSE, err |-> "not enough 'flagStream' data"]
    ELSE IF ~(nPoints <= Len(glyphStream)) THEN [ok |-> FALSE, err |-> "AssertionError"]
    ELSE LET r == decodeTripletsLoop(Slice(flagStream, 0, nPoints), glyphStream, 0,
                      nPoints, 0, 0, 0, <<>>)
         IN  IF ~r.ok THEN r
             ELSE [ok |-> TRUE, points |-> r.points,
                   bytesConsumed |-> r.bytesConsumed,
                   flagStream |-> From(flagStream, nPoints),
                   glyphStream |-> From(glyphStream, r.bytesConsumed)]

(***************************************************************************)
(* The 'glyf' transform, from the glyphs of the table to the transformed    *)
(* data and back.  A glyph is a record of numberOfContours, endPtsOfContours,*)
(* flags (the on-curve bits), coordinates (absolute, <<x, y>>), program and  *)
(* hasProgram, components and bbox (<<xMin, yMin, xMax, yMax>>).  The glyph  *)
(* classes of the table module 'glyf' and calcIntBounds are not part of the *)
(* sources at hand: a component is taken with two byte arguments and no     *)
(* scale, and the bounds of a glyph are those of its points.                *)
(***************************************************************************)
woff2GlyfTableFormatSize == 36

\* struct.pack(">h", n)
PackSH(n) == PackH(IF n < 0 THEN n + 65536 ELSE n)

\* struct.unpack(">h", d)
UnpackSH(d) == IF UnpackH(d) >= 32768 THEN UnpackH(d) - 65536 ELSE UnpackH(d)

NoGlyph ==
    [numberOfContours |-> 0, endPtsOfContours |-> <<>>, flags |-> <<>>,
     coordinates |-> <<>>, program |-> <<>>, hasProgram |-> FALSE,
     components |-> <<>>, bbox |-> <<0, 0, 0, 0>>]

\* glyph.isComposite()
isComposite(glyph) == glyph.numberOfContours = -1

\* GlyphCoordinates.absoluteToRelative, with the on-curve flag of each point
absoluteToRelative(coordinates, flags) ==
    [i \in 1..Len(coordinates) |->
        NewPoint(coordinates[i][1] - (IF i = 1 THEN 0 ELSE coordinates[i - 1][1]),
                 coordinates[i][2] - (IF i = 1 THEN 0 ELSE coordinates[i - 1][2]),
                 flags[i])]

\* calcIntBounds(coordinates), and glyph.recalcBounds
calcIntBounds(coordinates) ==
    IF Len(coordinates) = 0 THEN <<0, 0, 0, 0>>
    ELSE LET xs == {coordinates[i][1] : i \in 1..Len(coordinates)}
             ys == {coordinates[i][2] : i \in 1..Len(coordinates)}
         IN  <<CHOOSE v \in xs : \A u \in xs : v <= u,
               CHOOSE v \in ys : \A u \in ys : v <= u,
               CHOOSE v \in xs : \A u \in xs : v >= u,
               CHOOSE v \in ys : \A u \in ys : v >= u>>

\* GlyphComponent.compile(more, haveInstructions, glyfTable): the flags with
\* ARGS_ARE_XY_VALUES, MORE_COMPONENTS and WE_HAVE_INSTRUCTIONS, the glyph
\* index and the two arguments
compileComponent(component, more, haveInstructions) ==
    PackH(2 + (IF more THEN 32 ELSE 0) + (IF haveInstructions THEN 256 ELSE 0))
    \o PackH(component.glyphIndex)
    \o <<component.x % 256, component.y % 256>>

\* GlyphComponent.decompile(data, glyfTable)
decompileComponent(data) ==
    IF Len(data) < 6 THEN [ok |-> FALSE, err |-> "struct.error"]
    ELSE [ok |-> TRUE,
          more |-> (UnpackH(Slice(data, 0, 2)) \div 32) % 2 = 1,
          haveInstr |-> (UnpackH(Slice(data, 0, 2)) \div 256) % 2 = 1,
          component |-> [glyphIndex |-> UnpackH(Slice(data, 2, 4)),
                         x |-> IF data[5] >= 128 THEN data[5] - 256 ELSE data[5],
                         y |-> IF data[6] >= 128 THEN data[6] - 256 ELSE data[6]],
          rest |-> From(data, 6)]

\* the streams of transform before the first glyph
NoStreams(numGlyphs) ==
    [nContourStream |-> <<>>, nPointsStream |-> <<>>, flagStream |-> <<>>,
     glyphStream |-> <<>>, compositeStream |-> <<>>, bboxStream |-> <<>>,
     instructionStream |-> <<>>,
     bboxBitmap |-> Zeros(((numGlyphs + 31) \div 32) * 4)]

\* _encodeInstructions
encodeInstructions(st, glyph) ==
    [st EXCEPT !.glyphStream = @ \o pack255UShort(Len(glyph.program)).data,
               !.instructionStream = @ \o glyph.program]

\* the loop of _encodeCoordinates from contour i on
RECURSIVE encodeEndPts(_, _, _)
encodeEndPts(endPtsOfContours, i, lastEndPoint) ==
    IF i > Len(endPtsOfContours) THEN <<>>
    ELSE pack255UShort(endPtsOfContours[i] - lastEndPoint).data
         \o encodeEndPts(endPtsOfContours, i + 1, endPtsOfContours[i])

\* _encodeCoordinates with the triplets of the glyph
encodeCoordinatesWith(st, glyph, triplets) ==
    encodeInstructions(
        [st EXCEPT !.nPointsStream = @ \o encodeEndPts(glyph.endPtsOfContours, 1, -1),
                   !.flagStream = @ \o triplets.flags,
                   !.glyphStream = @ \o triplets.triplets],
        glyph)

\* _encodeCoordinates
encodeCoordinates(st, glyph) ==
    encodeCoordinatesWith(st, glyph,
        encodeTriplets(absoluteToRelative(glyph.coordinates, glyph.flags), 1))

\* the loop of _encodeComponents from component i on
RECURSIVE compileComponents(_, _, _)
compileComponents(components, i, hasProgram) ==
    IF i > Len(components) THEN <<>>
    ELSE compileComponent(components[i], i # Len(components),
                          i = Len(components) /\ hasProgram)
         \o compileComponents(components, i + 1, hasProgram)

\* _encodeComponents
encodeComponents(st, glyph) ==
    IF Len(glyph.components) > 0 /\ glyph.hasProgram
    THEN encodeInstructions(
             [st EXCEPT !.compositeStream =
                            @ \o compileComponents(glyph.components, 1, TRUE)],
             glyph)
    ELSE [st EXCEPT !.compositeStream =
                        @ \o compileComponents(glyph.components, 1, FALSE)]

\* self.bboxBitmap[glyphID >> 3] & (0x80 >> (glyphID & 7))
haveBBox(bboxBitmap, glyphID) ==
    (bboxBitmap[(glyphID \div 8) + 1] \div (2 ^ (7 - (glyphID % 8)))) % 2 = 1

\* self.bboxBitmap[glyphID >> 3] |= 0x80 >> (glyphID & 7)
\* the bit of the glyph counted from the low end of its byte
setBBox_lowFirst(bboxBitmap, glyphID) ==
    Slice(bboxBitmap, 0, glyphID \div 8)
    \o <<IF (bboxBitmap[(glyphID \div 8) + 1] \div (2 ^ (glyphID % 8))) % 2 = 1
         THEN bboxBitmap[(glyphID \div 8) + 1]
         ELSE bboxBitmap[(glyphID \div 8) + 1] + 2 ^ (glyphID % 8)>>
    \o From(bboxBitmap, (glyphID \div 8) + 1)

setBBox(bboxBitmap, glyphID) ==
    Slice(bboxBitmap, 0, glyphID \div 8)
    \o <<IF haveBBox(bboxBitmap, glyphID) THEN bboxBitmap[(glyphID \div 8) + 1]
         ELSE bboxBitmap[(glyphID \div 8) + 1] + 2 ^ (7 - (glyphID % 8))>>
    \o From(bboxBitmap, (glyphID \div 8) + 1)

\* _encodeBBox that leaves the bounding box of every simple glyph out
encodeBBox_omitted(st, glyphID, glyph) ==
    IF ~isComposite(glyph)
    THEN st
    ELSE [st EXCEPT !.bboxBitmap = setBBox(@, glyphID),
                    !.bboxStream = @ \o PackSH(glyph.bbox[1]) \o PackSH(glyph.bbox[2])
                                     \o PackSH(glyph.bbox[3]) \o PackSH(glyph.bbox[4])]

\* _encodeBBox
encodeBBox(st, glyphID, glyph) ==
    IF ~isComposite(glyph) /\ glyph.bbox = calcIntBounds(glyph.coordinates)
    THEN st
    ELSE [st EXCEPT !.bboxBitmap = setBBox(@, glyphID),
                    !.bboxStream = @ \o PackSH(glyph.bbox[1]) \o PackSH(glyph.bbox[2])
                                     \o PackSH(glyph.bbox[3]) \o PackSH(glyph.bbox[4])]

\* _encodeGlyph after the number of contours is written
encodeGlyphBody(st, glyphID, glyph) ==
    IF glyph.numberOfContours = 0 THEN st
    ELSE IF isComposite(glyph) THEN encodeBBox(encodeComponents(st, glyph), glyphID, glyph)
    ELSE encodeBBox(encodeCoordinates(st, glyph), glyphID, glyph)

\* _encodeGlyph
encodeGlyph(st, glyphID, glyph) ==
    encodeGlyphBody([st EXCEPT !.nContourStream = @ \o PackSH(glyph.numberOfContours)],
                    glyphID, glyph)

\* the loop of transform over the glyphs from glyphID on
RECURSIVE encodeGlyphs(_, _, _)
encodeGlyphs(st, glyphs, glyphID) ==
    IF glyphID = Len(glyphs) THEN st
    ELSE encodeGlyphs(encodeGlyph(st, glyphID, glyphs[glyphID + 1]), glyphs, glyphID + 1)

\* sstruct.pack(woff2GlyfTableFormat, self) followed by the seven streams
packGlyfTable(numGlyphs, indexFormat, streams) ==
    PackL(<<0, 0>>) \o PackH(numGlyphs) \o PackH(indexFormat)
    \o PackL(IntToW(Len(streams[1]))) \o PackL(IntToW(Len(streams[2])))
    \o PackL(IntToW(Len(streams[3]))) \o PackL(IntToW(Len(streams[4])))
    \o PackL(IntToW(Len(streams[5]))) \o PackL(IntToW(Len(streams[6])))
    \o PackL(IntToW(Len(streams[7])))
    \o streams[1] \o streams[2] \o streams[3] \o streams[4] \o streams[5]
    \o streams[6] \o streams[7]

\* transform from the streams of the glyphs on
transformStreams(numGlyphs, indexFormat, st) ==
    packGlyfTable(numGlyphs, indexFormat,
        <<st.nContourStream, st.nPointsStream, st.flagStream, st.glyphStream,
          st.compositeStream, st.bboxBitmap \o st.bboxStream, st.instructionStream>>)

\* WOFF2GlyfTable.transform on the glyphs that decompile gave
transform(glyphs, indexFormat) ==
    transformStreams(Len(glyphs), indexFormat,
                     encodeGlyphs(NoStreams(Len(glyphs)), glyphs, 0))

Failed(err) == [ok |-> FALSE, err |-> err]

\* _decodeInstructions
decodeInstructions(st, glyph) ==
    LET n == unpack255UShort(st.glyphStream)
    IN  IF ~n.ok THEN n
        ELSE [ok |-> TRUE,
              glyph |-> [glyph EXCEPT !.program = Slice(st.instructionStream, 0, n.value),
                                      !.hasProgram = TRUE],
              st |-> [st EXCEPT !.glyphStream = n.rest,
                                !.instructionStream = From(@, n.value)]]

\* the loop of _decodeCoordinates from contour i on
RECURSIVE decodeEndPts(_, _, _, _, _)
decodeEndPts(data, i, numberOfContours, endPoint, endPtsOfContours) ==
    IF i >= numberOfContours
    THEN [ok |-> TRUE, endPtsOfContours |-> endPtsOfContours, rest |-> data]
    ELSE LET n == unpack255UShort(data)
         IN  IF ~n.ok THEN n
             ELSE decodeEndPts(n.rest, i + 1, numberOfContours, endPoint + n.value,
                               Append(endPtsOfContours, endPoint + n.value))

\* _decodeCoordinates after the end points are read
decodeCoordinatesWith(st, glyph, ends) ==
    IF Len(ends.endPtsOfContours) = 0 THEN Failed("IndexError")
    ELSE LET nPoints == ends.endPtsOfContours[Len(ends.endPtsOfContours)] + 1
             t == decodeTriplets(nPoints, st.flagStream, st.glyphStream)
         IN  IF ~t.ok THEN t
             ELSE decodeInstructions(
                      [st EXCEPT !.nPointsStream = ends.rest,
                                 !.flagStream = t.flagStream,
                                 !.glyphStream = t.glyphStream],
                      [glyph EXCEPT !.endPtsOfContours = ends.endPtsOfContours,
                                    !.flags = [i \in 1..nPoints |-> t.points[i].onCurve],
                                    !.coordinates =
                                        [i \in 1..nPoints |->
                                            <<t.points[i].x, t.points[i].y>>]])

\* _decodeCoordinates
decodeCoordinates(st, glyph) ==
    LET ends == decodeEndPts(st.nPointsStream, 0, glyph.numberOfContours, -1, <<>>)
    IN  IF ~ends.ok THEN ends ELSE decodeCoordinatesWith(st, glyph, ends)

\* the loop of _decodeComponents
RECURSIVE decodeComponentsLoop(_, _, _)
decodeComponentsLoop(data, components, haveInstructions) ==
    LET c == decompileComponent(data)
    IN  IF ~c.ok THEN c
        ELSE IF c.more
        THEN decodeComponentsLoop(c.rest, Append(components, c.component),
                                  haveInstructions \/ c.haveInstr)
        ELSE [ok |-> TRUE, components |-> Append(components, c.component),
              haveInstructions |-> haveInstructions \/ c.haveInstr, rest |-> c.rest]

\* _decodeComponents
decodeComponents(st, glyph) ==
    LET c == decodeComponentsLoop(st.compositeStream, <<>>, FALSE)
    IN  IF ~c.ok THEN c
        ELSE IF c.haveInstructions
        THEN decodeInstructions([st EXCEPT !.compositeStream = c.rest],
                                [glyph EXCEPT !.components = c.components])
        ELSE [ok |-> TRUE, glyph |-> [glyph EXCEPT !.components = c.components],
              st |-> [st EXCEPT !.compositeStream = c.rest]]

\* _decodeBBox
decodeBBox(st, glyphID, glyph) ==
    IF (glyphID \div 8) + 1 > Len(st.bboxBitmap) THEN Failed("IndexError")
    ELSE IF isComposite(glyph) /\ ~haveBBox(st.bboxBitmap, glyphID)
    THEN Failed("no bbox values for composite glyph")
    ELSE IF ~haveBBox(st.bboxBitmap, glyphID)
    THEN [ok |-> TRUE, glyph |-> [glyph EXCEPT !.bbox = calcIntBounds(glyph.coordinates)],
          st |-> st]
    ELSE IF Len(st.bboxStream) < 8 THEN Failed("struct.error")
    ELSE [ok |-> TRUE,
          glyph |-> [glyph EXCEPT !.bbox = <<UnpackSH(Slice(st.bboxStream, 0, 2)),
                                             UnpackSH(Slice(st.bboxStream, 2, 4)),
                                             UnpackSH(Slice(st.bboxStream, 4, 6)),
                                             UnpackSH(Slice(st.bboxStream, 6, 8))>>],
          st |-> [st EXCEPT !.bboxStream = From(@, 8)]]

\* _decodeGlyph after the components or the coordinates are read
decodeGlyphBBox(glyphID, r) == IF ~r.ok THEN r ELSE decodeBBox(r.st, glyphID, r.glyph)

\* _decodeGlyph
decodeGlyph(st, glyphID) ==
    LET glyph == [NoGlyph EXCEPT !.numberOfContours =
                      UnpackSH(Slice(st.nContourStream, 2 * glyphID, 2 * glyphID + 2))]
    IN  IF glyph.numberOfContours = 0 THEN [ok |-> TRUE, glyph |-> glyph, st |-> st]
        ELSE IF isComposite(glyph)
        THEN decodeGlyphBBox(glyphID, decodeComponents(st, glyph))
        ELSE decodeGlyphBBox(glyphID, decodeCoordinates(st, glyph))

\* the loop of reconstruct over the glyphs from glyphID on
RECURSIVE decodeGlyphs(_, _, _, _)
decodeGlyphs(st, glyphID, numGlyphs, glyphs) ==
    IF glyphID = numGlyphs THEN [ok |-> TRUE, glyphs |-> glyphs]
    ELSE LET r == decodeGlyph(st, glyphID)
         IN  IF ~r.ok THEN r
             ELSE decodeGlyphs(r.st, glyphID + 1, numGlyphs, Append(glyphs, r.glyph))

\* the end of stream k (1..7) of the transformed data, from its header
streamEnd(data, k) ==
    IF k = 0 THEN woff2GlyfTableFormatSize
    ELSE Len(Slice(data, 0,
             woff2GlyfTableFormatSize
             + U32(Slice(data, 8, 12))
             + (IF k >= 2 THEN U32(Slice(data, 12, 16)) ELSE 0)
             + (IF k >= 3 THEN U32(Slice(data, 16, 20)) ELSE 0)
             + (IF k >= 4 THEN U32(Slice(data, 20, 24)) ELSE 0)
             + (IF k >= 5 THEN U32(Slice(data, 24, 28)) ELSE 0)
             + (IF k >= 6 THEN U32(Slice(data, 28, 32)) ELSE 0)
             + (IF k >= 7 THEN U32(Slice(data, 32, 36)) ELSE 0)))

\* stream k of the transformed data
substream(data, k) == Slice(data, streamEnd(data, k - 1), streamEnd(data, k))

\* what the header says the size of the transformed data is
substreamOffset(data) ==
    woff2GlyfTableFormatSize
    + U32(Slice(data, 8, 12)) + U32(Slice(data, 12, 16)) + U32(Slice(data, 16, 20))
    + U32(Slice(data, 20, 24)) + U32(Slice(data, 24, 28)) + U32(Slice(data, 28, 32))
    + U32(Slice(data, 32, 36))

\* reconstruct that does not compare the sizes of the streams with the size
\* of the data
reconstruct_unsized(data) ==
    IF Len(data) < woff2GlyfTableFormatSize THEN Failed("struct.error")
    ELSE IF Len(substream(data, 1)) % 2 # 0 THEN Failed("ValueError")
    ELSE IF Len(substream(data, 1)) \div 2 # UnpackH(Slice(data, 4, 6))
    THEN Failed("AssertionError")
    ELSE [indexFormat |-> UnpackH(Slice(data, 6, 8))] @@
         decodeGlyphs(
             [nContourStream |-> substream(data, 1), nPointsStream |-> substream(data, 2),
              flagStream |-> substream(data, 3), glyphStream |-> substream(data, 4),
              compositeStream |-> substream(data, 5),
              bboxStream |-> From(substream(data, 6),
                                  ((UnpackH(Slice(data, 4, 6)) + 31) \div 32) * 4),
              instructionStream |-> substream(data, 7),
              bboxBitmap |-> Slice(substream(data, 6), 0,
                                   ((UnpackH(Slice(data, 4, 6)) + 31) \div 32) * 4)],
             0, UnpackH(Slice(data, 4, 6)), <<>>)

\* WOFF2GlyfTable.reconstruct up to the glyphs that compile is given, with
\* the indexFormat of the header
reconstruct(data) ==
    IF Len(data) < woff2GlyfTableFormatSize THEN Failed("struct.error")
    ELSE IF substreamOffset(data) # Len(data)
    THEN Failed("incorrect size of transformed 'glyf' table")
    ELSE IF Len(substream(data, 1)) % 2 # 0 THEN Failed("ValueError")
    ELSE IF Len(substream(data, 1)) \div 2 # UnpackH(Slice(data, 4, 6))
    THEN Failed("AssertionError")
    ELSE [indexFormat |-> UnpackH(Slice(data, 6, 8))] @@
         decodeGlyphs(
             [nContourStream |-> substream(data, 1), nPointsStream |-> substream(data, 2),
              flagStream |-> substream(data, 3), glyphStream |-> substream(data, 4),
              compositeStream |-> substream(data, 5),
              bboxStream |-> From(substream(data, 6),
                                  ((UnpackH(Slice(data, 4, 6)) + 31) \div 32) * 4),
              instructionStream |-> substream(data, 7),
              bboxBitmap |-> Slice(substream(data, 6), 0,
                                   ((UnpackH(Slice(data, 4, 6)) + 31) \div 32) * 4)],
             0, UnpackH(Slice(data, 4, 6)), <<>>)

(***************************************************************************)
(* The 'loca' table of the reconstructed glyphs and the fetch of the        *)
(* transformed tables from a WOFF2 Reader.                                   *)
(***************************************************************************)
\* the loop of getLocaData that appends locations[i] // 2 as ">H", or the
\* array of ">I" values
RECURSIVE packLocations(_, _, _)
packLocations(locations, i, indexFormat) ==
    IF i > Len(locations) THEN <<>>
    ELSE (IF indexFormat = 0 THEN PackH(locations[i] \div 2)
          ELSE PackL(IntToW(locations[i])))
         \o packLocations(locations, i + 1, indexFormat)

\* getLocaData that never looks at the offsets of the short format
getLocaData_unchecked(locations, indexFormat) ==
    [ok |-> TRUE, data |-> packLocations(locations, 1, indexFormat)]

\* WOFF2GlyfTable.getLocaData on the locations of the 'loca' table, after
\* reconstruct
getLocaData(locations, indexFormat) ==
    IF indexFormat = 0 /\ \E i \in 1..Len(locations) : locations[i] >= 131072
    THEN Failed("indexFormat is 0 but local offsets > 0x20000")
    ELSE IF indexFormat = 0 /\ \E i \in 1..Len(locations) : locations[i] % 2 # 0
    THEN Failed("indexFormat is 0 but local offsets not multiples of 2")
    ELSE [ok |-> TRUE, data |-> packLocations(locations, 1, indexFormat)]

\* Glyph.compile: the number of contours and the bounding box, then the end
\* points, the instructions, the flags and the coordinates of a simple
\* glyph or the components and the instructions of a composite glyph, with
\* padding to a multiple of 4 bytes; an empty glyph has no bytes
compileGlyph(glyph) ==
    IF glyph.numberOfContours = 0 THEN <<>>
    ELSE padData(
        PackSH(glyph.numberOfContours)
        \o PackSH(glyph.bbox[1]) \o PackSH(glyph.bbox[2])
        \o PackSH(glyph.bbox[3]) \o PackSH(glyph.bbox[4])
        \o (IF isComposite(glyph)
            THEN compileComponents(glyph.components, 1, glyph.hasProgram)
                 \o (IF glyph.hasProgram
                     THEN PackH(Len(glyph.program)) \o glyph.program ELSE <<>>)
            ELSE [i \in 1..(2 * Len(glyph.endPtsOfContours)) |->
                     PackH(glyph.endPtsOfContours[(i + 1) \div 2])[2 - (i % 2)]]
                 \o PackH(Len(glyph.program)) \o glyph.program
                 \o glyph.flags
                 \o [i \in 1..(4 * Len(glyph.coordinates)) |->
                        (PackSH(glyph.coordinates[(i + 3) \div 4][1])
                         \o PackSH(glyph.coordinates[(i + 3) \div 4][2]))[((i - 1) % 4) + 1]]))

\* the compile of the 'glyf' table: the data of the glyphs from glyph i on
\* and the locations of the 'loca' table
RECURSIVE glyfCompile(_, _, _, _)
glyfCompile(glyphs, i, data, locations) ==
    IF i > Len(glyphs) THEN [data |-> data, locations |-> Append(locations, Len(data))]
    ELSE glyfCompile(glyphs, i + 1, data \o compileGlyph(glyphs[i]),
                     Append(locations, Len(data)))

\* a Reader has no WOFF2GlyfTable (ttLib/sfnt.py), or its WOFF2Glyf has no
\* locaData (ttLib/woff2.py)
NoGlyfTable ==
    [exists |-> FALSE, compiled |-> FALSE, hasIndexFormat |-> FALSE, indexFormat |-> 0,
     locations |-> <<>>, locaData |-> <<>>]

NotCached == [has |-> FALSE, data |-> <<>>]

FetchOf(r, tag, data) ==
    [r |-> r,
     fetched |-> [tag |-> tag, ok |-> TRUE, data |-> data, err |-> "none",
                  warned |-> FALSE]]

FetchFailed(r, tag, err) == [r |-> r, fetched |-> [NoFetch EXCEPT !.tag = tag, !.err = err]]

\* self.glyfTable = WOFF2GlyfTable(); data = self.glyfTable.reconstruct(rawData)
\* of reconstructTable, with the compile of the tables at the end of
\* reconstruct; calls and done count the reconstructions that were begun and
\* that came to their end
reconstructGlyf(r, rawData, out) ==
    IF ~out.ok
    THEN [ok |-> FALSE, err |-> out.err,
          r |-> [r EXCEPT !.calls = @ + 1,
                          !.glyfTable =
                              [NoGlyfTable EXCEPT
                                  !.exists = TRUE,
                                  !.hasIndexFormat = Len(rawData) >= woff2GlyfTableFormatSize]]]
    ELSE [ok |-> TRUE, data |-> glyfCompile(out.glyphs, 1, <<>>, <<>>).data,
          r |-> [r EXCEPT !.calls = @ + 1, !.done = @ + 1,
                          !.glyfTable =
                              [exists |-> TRUE, compiled |-> TRUE, hasIndexFormat |-> TRUE,
                               indexFormat |-> out.indexFormat,
                               locations |-> glyfCompile(out.glyphs, 1, <<>>, <<>>).locations,
                               locaData |-> <<>>]]]

\* rawData = entry.loadData(self.transformBuffer) of the entry of 'glyf'
rawGlyf(r) == loadData("woff2", TableOf(r.tables, TagGlyf), r.transformBuffer)

\* __getitem__('glyf') that does not keep the data it reconstructed
getitemGlyf_uncached(r, out) ==
    IF ~HasTable(r.tables, TagGlyf) THEN FetchFailed(r, TagGlyf, "KeyError")
    ELSE IF ~rawGlyf(r).ok THEN FetchFailed(r, TagGlyf, "AssertionError")
    ELSE LET g == reconstructGlyf(r, rawGlyf(r).data, out)
         IN  IF ~g.ok THEN FetchFailed(g.r, TagGlyf, g.err)
             ELSE FetchOf(g.r, TagGlyf, g.data)

\* WOFF2Reader.__getitem__('glyf') of ttLib/sfnt.py
getitemGlyf(r, out) ==
    IF ~HasTable(r.tables, TagGlyf) THEN FetchFailed(r, TagGlyf, "KeyError")
    ELSE IF ~rawGlyf(r).ok THEN FetchFailed(r, TagGlyf, "AssertionError")
    ELSE IF r.glyfData.has THEN FetchOf(r, TagGlyf, r.glyfData.data)
    ELSE LET g == reconstructGlyf(r, rawGlyf(r).data, out)
         IN  IF ~g.ok THEN FetchFailed(g.r, TagGlyf, g.err)
             ELSE FetchOf([g.r EXCEPT !.glyfData = [has |-> TRUE, data |-> g.data]],
                          TagGlyf, g.data)

\* the 'loca' branch of reconstructTable and the end of __getitem__ once
\* there is a glyfTable
locaOfGlyfTable(r) ==
    IF ~(r.glyfTable.compiled /\ r.glyfTable.hasIndexFormat)
    THEN FetchFailed(r, TagLoca, "'getLocaData' must be run after 'reconstruct' method")
    ELSE LET l == getLocaData(r.glyfTable.locations, r.glyfTable.indexFormat)
         IN  IF ~l.ok THEN FetchFailed(r, TagLoca, l.err)
             ELSE IF Len(l.data) # TableOf(r.tables, TagLoca).origLength
             THEN FetchFailed(r, TagLoca,
                      "reconstructed 'loca' table doesn't match original size")
             ELSE FetchOf([r EXCEPT !.locaData = [has |-> TRUE, data |-> l.data]],
                          TagLoca, l.data)

\* the fetch of 'loca' goes on after self['glyf']
locaAfterGlyf(g) ==
    IF ~g.fetched.ok THEN FetchFailed(g.r, TagLoca, g.fetched.err)
    ELSE locaOfGlyfTable(g.r)

\* WOFF2Reader.__getitem__('loca') of ttLib/sfnt.py
getitemLoca(r, out) ==
    IF ~HasTable(r.tables, TagLoca) THEN FetchFailed(r, TagLoca, "KeyError")
    ELSE IF ~loadData("woff2", TableOf(r.tables, TagLoca), r.transformBuffer).ok
    THEN FetchFailed(r, TagLoca, "AssertionError")
    ELSE IF r.locaData.has THEN FetchOf(r, TagLoca, r.locaData.data)
    ELSE IF TableOf(r.tables, TagLoca).length # 0
    THEN FetchFailed(r, TagLoca, "AssertionError")
    ELSE IF ~r.glyfTable.exists THEN locaAfterGlyf(getitemGlyf(r, out))
    ELSE locaOfGlyfTable(r)

\* the compile of the 'loca' table at the end of WOFF2Glyf.decodeData of
\* ttLib/woff2.py: the short format when every location is even and below
\* 0x20000, and an error when this is not the format of the header
locaCompile(locations, indexFormat) ==
    IF (IF getLocaData(locations, 0).ok THEN 0 ELSE 1) # (IF indexFormat = 0 THEN 0 ELSE 1)
    THEN Failed("reconstructed 'loca' table has wrong index format")
    ELSE getLocaData(locations, indexFormat)

\* self.glyfDecoder.decodeData(rawData) of ttLib/woff2.py, and the test of
\* the length at the end of __getitem__
decodeGlyfData(r, g) ==
    IF ~g.ok THEN FetchFailed([g.r EXCEPT !.glyfTable = r.glyfTable], TagGlyf, g.err)
    ELSE LET l == locaCompile(g.r.glyfTable.locations, g.r.glyfTable.indexFormat)
         IN  IF ~l.ok
             THEN FetchFailed([g.r EXCEPT !.glyfTable = r.glyfTable, !.done = r.done],
                              TagGlyf, l.err)
             ELSE IF Len(g.data) # TableOf(r.tables, TagGlyf).origLength
             THEN FetchFailed([g.r EXCEPT !.glyfTable.locaData = l.data], TagGlyf,
                      "reconstructed 'glyf' table doesn't match original size")
             ELSE FetchOf([g.r EXCEPT !.glyfTable.locaData = l.data,
                                      !.glyfData = [has |-> TRUE, data |-> g.data]],
                          TagGlyf, g.data)

\* WOFF2Reader.__getitem__('glyf') of ttLib/woff2.py
woff2pyGetitemGlyf(r, out) ==
    IF ~HasTable(r.tables, TagGlyf) THEN FetchFailed(r, TagGlyf, "KeyError")
    ELSE IF ~rawGlyf(r).ok THEN FetchFailed(r, TagGlyf, "AssertionError")
    ELSE IF r.glyfData.has THEN FetchOf(r, TagGlyf, r.glyfData.data)
    ELSE decodeGlyfData(r, reconstructGlyf(r, rawGlyf(r).data, out))

\* data = self.glyfDecoder.locaData and the test of the length
woff2pyLocaData(r) ==
    IF Len(r.glyfTable.locaData) # TableOf(r.tables, TagLoca).origLength
    THEN FetchFailed(r, TagLoca, "reconstructed 'loca' table doesn't match original size")
    ELSE FetchOf([r EXCEPT !.locaData = [has |-> TRUE, data |-> r.glyfTable.locaData]],
                 TagLoca, r.glyfTable.locaData)

\* the fetch of 'loca' goes on after self['glyf'], whatever it returned
woff2pyLocaAfterGlyf(g) ==
    IF ~g.fetched.ok THEN FetchFailed(g.r, TagLoca, g.fetched.err)
    ELSE woff2pyLocaData(g.r)

\* WOFF2Reader.__getitem__('loca') of ttLib/woff2.py
woff2pyGetitemLoca(r, out) ==
    IF ~HasTable(r.tables, TagLoca) THEN FetchFailed(r, TagLoca, "KeyError")
    ELSE IF ~loadData("woff2", TableOf(r.tables, TagLoca), r.transformBuffer).ok
    THEN FetchFailed(r, TagLoca, "AssertionError")
    ELSE IF r.locaData.has THEN FetchOf(r, TagLoca, r.locaData.data)
    ELSE IF TableOf(r.tables, TagLoca).length # 0
    THEN FetchFailed(r, TagLoca, "AssertionError")
    ELSE IF Len(r.glyfTable.locaData) = 0 THEN woff2pyLocaAfterGlyf(woff2pyGetitemGlyf(r, out))
    ELSE woff2pyLocaData(r)

\* reader[tag] for a transformed table, of the module the Reader is of; out
\* is what the decoder of 'glyf' makes of the data of the entry of 'glyf'
getitemTransformed(r, tag, out) ==
    IF r.module = "woff2.py"
    THEN (IF tag = TagGlyf THEN woff2pyGetitemGlyf(r, out) ELSE woff2pyGetitemLoca(r, out))
    ELSE (IF tag = TagGlyf THEN getitemGlyf(r, out) ELSE getitemLoca(r, out))

(***************************************************************************)
(* woff2NormaliseFont.  A font is the set of the tags of its tables, the    *)
(* flags of its 'head' table, its sfntVersion, its lazy attribute and the   *)
(* set of the tags of the tables that are loaded.                           *)
(***************************************************************************)
\* flags | (1 << bit) of a 16-bit field
SetBit(flags, bit) ==
    IF (flags \div (2 ^ bit)) % 2 = 1 THEN flags ELSE flags + 2 ^ bit

\* flags & ~(1 << bit)
ClearBit(flags, bit) ==
    IF (flags \div (2 ^ bit)) % 2 = 1 THEN flags - 2 ^ bit ELSE flags

\* woff2NormaliseFont: the 'glyf' table of a TrueType font is loaded
woff2NormaliseFont(ttFont) ==
    LET normalised ==
            IF "DSIG" \in ttFont.tables
            THEN [ttFont EXCEPT !.tables = @ \ {"DSIG"}, !.flags = SetBit(@, 11)]
            ELSE ttFont
    IN  IF normalised.sfntVersion = <<0, 1, 0, 0>>
        THEN [normalised EXCEPT !.lazy = FALSE, !.loaded = @ \cup {"glyf"}]
        ELSE normalised

(***************************************************************************)
(* The integer codecs applied to inputs drawn from bounded sets.            *)
(***************************************************************************)
\* wide integers around the powers of 128, below 0 and from 2^32 on
HiSamples == {-1, 0, 1, 31, 32, 4095, 4096, 65535, 65536, 70000}

LoSamples == (0..300) \cup {16383, 16384, 32768, 65535}

WideSamples == {<<hi, lo>> : hi \in HiSamples, lo \in LoSamples}

\* trailing bytes after an encoded integer
RestSamples == {<<>>, <<0>>, <<128, 5>>}

\* the bytes of the strings handed to unpackBase128: 0x00, 0x7F, 0x80, 0x8F, 0x90, 0xFF
CodeBytes == {0, 127, 128, 143, 144, 255}

CodeStrings == UNION {[1..k -> CodeBytes] : k \in 0..MaxCodeLen}

\* values around the steps of the 255UInt16 code, and out of its range
ShortSamples == (-1..1100) \cup {32767, 32768, 65534, 65535, 65536}

ShortBytes == {0, 1, 250, 252, 253, 254, 255}

ShortStrings == UNION {[1..k -> ShortBytes] : k \in 0..MaxShortLen}

\* the data handed to calcChecksum: short strings, the strings of its
\* docstring ('abcd', 'abcdxyz'), and strings around one and two blocks
SumBytes == {0, 1, 255}

LongData(n) == [i \in 1..n |-> (i * 37 + 200) % 256]

SumStrings ==
    UNION {[1..k -> SumBytes] : k \in 0..MaxSumLen}
    \cup {<<97, 98, 99, 100>>, <<97, 98, 99, 100, 120, 121, 122>>}
    \cup {LongData(n) : n \in {4093, 4096, 4098, 8195}}

\* all variables of the Writer and Reader, which the codecs do not touch
\* relative coordinates at both sides of the limits of the six forms of a
\* triplet: 0, 1, 64|65, 255|256, 768|769, 1279|1280, 4095|4096 and 32767
DeltaSamples ==
    {0, 1, -1, 64, -64, 65, -65, 255, -256, 768, -768, 769, -769, 1279, -1279,
     1280, -1280, 4095, -4095, 4096, -4096, 32767, -32767}

\* the relative coordinates of the points of a glyph of two points
PairSamples == {0, -3, 700, -4000}

\* the number of points of a glyph
MaxPoints == 2

\* glyphs of one point with any of the samples, and of up to MaxPoints
\* points with coordinates of PairSamples
GlyphSamples ==
    {<<NewPoint(x, y, on)>> : x \in DeltaSamples, y \in DeltaSamples, on \in {0, 1}}
    \cup UNION {[1..n -> {NewPoint(x, y, on) : x \in PairSamples, y \in PairSamples,
                                                on \in {0, 1}}] : n \in 2..MaxPoints}

\* what follows the glyph in the two streams
StreamRests == {<<>>, <<200, 7>>}

\* an empty glyph, a simple glyph whose bounding box is that of its points,
\* a simple glyph of two contours with instructions and another bounding
\* box, a composite glyph, and a composite glyph with instructions
GlyphChoices ==
    {NoGlyph,
     [NoGlyph EXCEPT !.numberOfContours = 1, !.endPtsOfContours = <<1>>,
                     !.flags = <<1, 0>>, !.coordinates = <<<<10, -5>>, <<300, 700>>>>,
                     !.hasProgram = TRUE, !.bbox = <<10, -5, 300, 700>>],
     [NoGlyph EXCEPT !.numberOfContours = 2, !.endPtsOfContours = <<0, 2>>,
                     !.flags = <<1, 1, 0>>,
                     !.coordinates = <<<<0, 0>>, <<-4000, 100>>, <<-4000, 1380>>>>,
                     !.program = <<176, 1>>, !.hasProgram = TRUE,
                     !.bbox = <<-4001, 0, 0, 1400>>],
     [NoGlyph EXCEPT !.numberOfContours = -1,
                     !.components = <<[glyphIndex |-> 1, x |-> 5, y |-> -7]>>,
                     !.bbox = <<10, -5, 300, 700>>],
     [NoGlyph EXCEPT !.numberOfContours = -1,
                     !.components = <<[glyphIndex |-> 1, x |-> 0, y |-> 0],
                                      [glyphIndex |-> 300, x |-> -128, y |-> 127]>>,
                     !.program = <<176, 0, 45>>, !.hasProgram = TRUE,
                     !.bbox = <<-1, -2, 3, 4>>]}

\* the number of glyphs of a table
MaxGlyphs == 2

\* a table of 34 glyphs, which has a bounding box bitmap of 8 bytes: the
\* glyphs 8 and 33 are the simple glyph with instructions, glyph 17 is a
\* composite glyph and the others are empty
LongGlyphTable ==
    [i \in 1..34 |->
        IF i \in {9, 34}
        THEN [NoGlyph EXCEPT !.numberOfContours = 2, !.endPtsOfContours = <<0, 2>>,
                             !.flags = <<1, 1, 0>>,
                             !.coordinates = <<<<0, 0>>, <<-4000, 100>>, <<-4000, 1380>>>>,
                             !.program = <<176, 1>>, !.hasProgram = TRUE,
                             !.bbox = <<-4001, 0, 0, 1400>>]
        ELSE IF i = 18
        THEN [NoGlyph EXCEPT !.numberOfContours = -1,
                             !.components = <<[glyphIndex |-> 1, x |-> 5, y |-> -7]>>,
                             !.bbox = <<10, -5, 300, 700>>]
        ELSE NoGlyph]

GlyphTables ==
    UNION {[1..n -> GlyphChoices] : n \in 1..MaxGlyphs} \cup {LongGlyphTable}

\* transformed data of one glyph with one contour of one point at (0, 5) and
\* no instructions, from its streams
OnePoint(nPointsStream, flagStream, glyphStream, bboxStream) ==
    packGlyfTable(1, 0, <<<<0, 1>>, nPointsStream, flagStream, glyphStream, <<>>,
                          bboxStream, <<>>>>)

\* the data transform gives for this glyph; the same with the point in the
\* form of four bytes, with the number of points as a word, with the length
\* of the instructions as a word, and with the bounding box of its point
\* stored; data that is cut short, that has a byte too many and that has a
\* glyph of -2 contours
TransformedSamples ==
    {OnePoint(<<1>>, <<1>>, <<5, 0>>, <<0, 0, 0, 0>>),
     OnePoint(<<1>>, <<127>>, <<0, 0, 0, 5, 0>>, <<0, 0, 0, 0>>),
     OnePoint(<<253, 0, 1>>, <<1>>, <<5, 0>>, <<0, 0, 0, 0>>),
     OnePoint(<<1>>, <<1>>, <<5, 253, 0, 0>>, <<0, 0, 0, 0>>),
     OnePoint(<<1>>, <<1>>, <<5, 0>>, <<128, 0, 0, 0, 0, 0, 0, 5, 0, 0, 0, 5>>),
     Slice(OnePoint(<<1>>, <<1>>, <<5, 0>>, <<0, 0, 0, 0>>), 0, 20),
     Slice(OnePoint(<<1>>, <<1>>, <<5, 0>>, <<0, 0, 0, 0>>), 0, 45),
     OnePoint(<<1>>, <<1>>, <<5, 0>>, <<0, 0, 0, 0>>) \o <<0>>,
     OnePoint(<<1>>, <<1>>, <<5>>, <<0, 0, 0, 0>>),
     packGlyfTable(1, 1, <<<<255, 254>>, <<>>, <<>>, <<>>, <<>>, <<0, 0, 0, 0>>, <<>>>>),
     packGlyfTable(1, 1, <<<<255, 255>>, <<>>, <<>>, <<>>, <<0, 2, 0, 1, 2, 3>>,
                           <<0, 0, 0, 0>>, <<>>>>)}

\* 'head' flags with bit 11 clear and set, and nothing else or everything
\* else set
FlagSamples == {0, 1, 11, 2047, 2048, 2049, 4096, 32768, 63487, 65535}

\* fonts with and without a DSIG table, of both kinds of outlines
FontSamples ==
    {[tables |-> {"head", "cmap", "glyf"} \cup dsig \cup other, flags |-> flags,
      sfntVersion |-> sfntVersion, lazy |-> lazy, loaded |-> loaded] :
        dsig \in {{}, {"DSIG"}}, other \in {{}, {"loca"}}, flags \in FlagSamples,
        sfntVersion \in {<<0, 1, 0, 0>>, <<79, 84, 84, 79>>},
        lazy \in BOOLEAN, loaded \in {{}, {"head"}, {"head", "glyf"}}}

\* entries of 'cmap', 'ZZZZ', 'glyf' and 'loca' with the index of the tag or
\* 0x3F as flags, an origLength of one, two and three bytes, and for 'glyf' a
\* length of its transformed data; the length of the other tables is their
\* origLength and the length of 'loca' is 0
EntrySamples ==
    {e \in {[NewEntry(tag) EXCEPT !.flags = flags, !.origLength = origLength,
                                  !.length = IF tag = TagGlyf THEN length
                                             ELSE IF tag = TagLoca THEN 0
                                             ELSE origLength] :
               tag \in {TagCmap, TagZZZZ, TagGlyf, TagLoca},
               flags \in {0, 10, 11, 63}, origLength \in {0, 127, 128, 70000},
               length \in {0, 5, 16384}} :
        e.flags \in {getKnownTagIndex(e.tag), 63}}

MaxLocations == 3

\* offsets of glyphs: even and odd, and around 2 * 0xFFFF
LocationValues == {0, 2, 4, 7, 70000, 131070, 131071, 131072, 200000}

\* the locations of up to MaxLocations - 1 glyphs: they begin at 0 and do
\* not decrease
LocationSamples ==
    {l \in UNION {[1..n -> LocationValues] : n \in 1..MaxLocations} :
        /\ l[1] = 0
        /\ \A i \in 1..(Len(l) - 1) : l[i] <= l[i + 1]}

\* the bytes that follow the entry in the file
EntryRests ==
    {<<>>, <<0>>, <<128, 5>>, <<255, 255, 255, 255, 255, 255, 255, 255, 255, 255,
                                255, 255, 255, 255, 255, 255>>}

ioVars == <<writer, file, puts, partialCloses, lastOp, result, reader, fetched>>

CodecIn(op, arg, rest) == [op |-> op, done |-> FALSE, arg |-> arg, rest |-> rest]

InitCodec ==
    /\ writer = NewWriter("sfnt", 1, <<0, 1, 0, 0>>, NoFlavorData)
    /\ file = <<>>
    /\ puts = <<>>
    /\ partialCloses = 0
    /\ lastOp = NoOp
    /\ result = "ok"
    /\ reader = NoReader
    /\ fetched = NoFetch
    /\ \/ \E n \in WideSamples, rest \in RestSamples :
             codec = CodecIn("packBase128", n, rest)
       \/ \E data \in CodeStrings :
             codec = CodecIn("unpackBase128", data, <<>>)
       \/ \E data \in CodeStrings :
             codec = CodecIn("woff2.unpackBase128", data, <<>>)
       \/ \E n \in ShortSamples, rest \in RestSamples :
             codec = CodecIn("pack255UShort", n, rest)
       \/ \E data \in ShortStrings :
             codec = CodecIn("unpack255UShort", data, <<>>)
       \/ \E data \in SumStrings :
             codec = CodecIn("calcChecksum", data, <<>>)
       \/ \E points \in GlyphSamples, rest \in StreamRests :
             codec = CodecIn("encodeTriplets", points, rest)
       \/ \E glyphs \in GlyphTables, indexFormat \in {0, 1} :
             codec = CodecIn("transform", glyphs, indexFormat)
       \/ \E data \in TransformedSamples :
             codec = CodecIn("reconstruct", data, <<>>)
       \/ \E ttFont \in FontSamples :
             codec = CodecIn("woff2NormaliseFont", ttFont, <<>>)
       \/ \E locations \in LocationSamples, indexFormat \in {0, 1, 2} :
             codec = CodecIn("getLocaData", locations, indexFormat)
       \/ \E entry \in EntrySamples, before \in {<<>>, <<1, 2, 3>>},
             after \in EntryRests :
             codec = CodecIn("toString", entry, [before |-> before, after |-> after])

NotPacked == [ok |-> FALSE, err |-> "not packed"]

\* _encodeTriplets on the points of a glyph given by their relative
\* coordinates, then _decodeTriplets on the two streams followed by rest
EncodeTriplets ==
    /\ codec.op = "encodeTriplets" /\ ~codec.done
    /\ codec' = [codec EXCEPT !.done = TRUE] @@
                [packed |-> encodeTriplets(codec.arg, 1), size |-> 0,
                 out |-> decodeTriplets(Len(codec.arg),
                             encodeTriplets(codec.arg, 1).flags \o codec.rest,
                             encodeTriplets(codec.arg, 1).triplets \o codec.rest)]
    /\ UNCHANGED ioVars

\* packBase128(n), then unpackBase128 on the encoding followed by rest
PackBase128 ==
    /\ codec.op = "packBase128" /\ ~codec.done
    /\ codec' = [codec EXCEPT !.done = TRUE] @@
                [packed |-> packBase128(codec.arg),
                 size |-> IF codec.arg[1] >= 0 THEN base128Size(codec.arg) ELSE 0,
                 out |-> IF packBase128(codec.arg).ok
                         THEN unpackBase128(packBase128(codec.arg).data \o codec.rest)
                         ELSE NotPacked]
    /\ UNCHANGED ioVars

\* unpackBase128(data) of ttLib/sfnt.py
UnpackBase128 ==
    /\ codec.op = "unpackBase128" /\ ~codec.done
    /\ codec' = [codec EXCEPT !.done = TRUE] @@
                [packed |-> NotPacked, size |-> 0, out |-> unpackBase128(codec.arg)]
    /\ UNCHANGED ioVars

\* unpackBase128(data) of ttLib/woff2.py
Woff2UnpackBase128 ==
    /\ codec.op = "woff2.unpackBase128" /\ ~codec.done
    /\ codec' = [codec EXCEPT !.done = TRUE] @@
                [packed |-> NotPacked, size |-> 0, out |-> woff2_unpackBase128(codec.arg)]
    /\ UNCHANGED ioVars

\* pack255UShort(n), then unpack255UShort on the encoding followed by rest
Pack255UShort ==
    /\ codec.op = "pack255UShort" /\ ~codec.done
    /\ codec' = [codec EXCEPT !.done = TRUE] @@
                [packed |-> pack255UShort(codec.arg), size |-> 0,
                 out |-> IF pack255UShort(codec.arg).ok
                         THEN unpack255UShort(pack255UShort(codec.arg).data \o codec.rest)
                         ELSE NotPacked]
    /\ UNCHANGED ioVars

\* unpack255UShort(data)
Unpack255UShort ==
    /\ codec.op = "unpack255UShort" /\ ~codec.done
    /\ codec' = [codec EXCEPT !.done = TRUE] @@
                [packed |-> NotPacked, size |-> 0, out |-> unpack255UShort(codec.arg)]
    /\ UNCHANGED ioVars

\* calcChecksum(data), and calcChecksum of data with its last word completed
CalcChecksum ==
    /\ codec.op = "calcChecksum" /\ ~codec.done
    /\ codec' = [codec EXCEPT !.done = TRUE] @@
                [packed |-> NotPacked, size |-> 0, out |-> calcChecksum(codec.arg),
                 completed |-> calcChecksum(codec.arg
                                  \o Zeros(Align4(Len(codec.arg)) - Len(codec.arg)))]
    /\ UNCHANGED ioVars

\* transform of the table of the glyphs, with the indexFormat codec.rest,
\* then reconstruct on the transformed data, then transform again
TransformAgain(packed, out) ==
    [packed |-> packed, size |-> 0, out |-> out,
     again |-> IF out.ok THEN transform(out.glyphs, out.indexFormat) ELSE <<>>]

Transform ==
    /\ codec.op = "transform" /\ ~codec.done
    /\ \E packed \in {transform(codec.arg, codec.rest)} :
          \E out \in {reconstruct(packed)} :
              codec' = [codec EXCEPT !.done = TRUE] @@ TransformAgain(packed, out)
    /\ UNCHANGED ioVars

\* reconstruct on transformed data, then transform of the glyphs, then
\* reconstruct again
Reconstruct ==
    /\ codec.op = "reconstruct" /\ ~codec.done
    /\ \E out \in {reconstruct(codec.arg)} :
          \E again \in {TransformAgain(<<>>, out).again} :
              codec' = [codec EXCEPT !.done = TRUE] @@
                       [packed |-> NotPacked, size |-> 0, out |-> out, again |-> again,
                        outAgain |-> IF out.ok THEN reconstruct(again) ELSE out]
    /\ UNCHANGED ioVars

\* woff2NormaliseFont(ttFont)
Woff2NormaliseFont ==
    /\ codec.op = "woff2NormaliseFont" /\ ~codec.done
    /\ codec' = [codec EXCEPT !.done = TRUE] @@
                [packed |-> NotPacked, size |-> 0, out |-> woff2NormaliseFont(codec.arg)]
    /\ UNCHANGED ioVars

\* entry.toString(), and entry.fromFile on a file that has the bytes at the
\* position it is at
EntryToString ==
    /\ codec.op = "toString" /\ ~codec.done
    /\ \E data \in {woff2EntryToString(codec.arg)} :
          codec' = [codec EXCEPT !.done = TRUE] @@
                   [packed |-> data, size |-> Len(data),
                    out |-> woff2EntryFromFile(codec.rest.before \o data \o codec.rest.after,
                                               Len(codec.rest.before))]
    /\ UNCHANGED ioVars

\* glyfTable.getLocaData() on the locations and the indexFormat it has
GetLocaData ==
    /\ codec.op = "getLocaData" /\ ~codec.done
    /\ codec' = [codec EXCEPT !.done = TRUE] @@
                [packed |-> NotPacked, size |-> 0,
                 out |-> getLocaData(codec.arg, codec.rest)]
    /\ UNCHANGED ioVars

NextCodec ==
    \/ GetLocaData
    \/ EntryToString
    \/ PackBase128
    \/ UnpackBase128
    \/ Woff2UnpackBase128
    \/ Pack255UShort
    \/ Unpack255UShort
    \/ CalcChecksum
    \/ EncodeTriplets
    \/ Transform
    \/ Reconstruct
    \/ Woff2NormaliseFont

SpecCodec == InitCodec /\ [][NextCodec]_vars

(***************************************************************************)
(* Properties of the integer codecs.                                        *)
(***************************************************************************)
Applied(op) == codec.op = op /\ codec.done

\* the least number of base-128 digits that hold the wide integer n >= 0
DigitsNeeded(n) ==
    IF n[1] = 0 /\ n[2] < 128 THEN 1
    ELSE IF n[1] = 0 /\ n[2] < 16384 THEN 2
    ELSE IF n[1] < 32 THEN 3
    ELSE IF n[1] < 4096 THEN 4
    ELSE 5

\* C8: for 0 <= n < 2^32, packBase128(n) has base128Size(n) bytes, between 1
\* and 5 and no more than n needs, does not start with 0x80, and
\* unpackBase128(packBase128(n) + rest) returns (n, rest); packBase128
\* rejects n < 0 and n >= 2^32.
C8_PackBase128 ==
    Applied("packBase128") =>
        IF codec.arg[1] >= 0 /\ codec.arg[1] < 65536
        THEN /\ codec.packed.ok
             /\ Len(codec.packed.data) = codec.size
             /\ codec.size \in 1..5
             /\ codec.size = DigitsNeeded(codec.arg)
             /\ codec.packed.data[1] # 128
             /\ codec.out = [ok |-> TRUE, value |-> codec.arg, rest |-> codec.rest]
        ELSE ~codec.packed.ok

C8_Witness ==
    /\ Applied("packBase128")
    /\ codec.arg = <<65535, 65535>>
    /\ codec.rest = <<128, 5>>
    /\ codec.packed.ok
    /\ codec.packed.data = <<143, 255, 255, 255, 127>>
    /\ codec.out = [ok |-> TRUE, value |-> <<65535, 65535>>, rest |-> <<128, 5>>]

\* the position of the first byte with a clear top bit, 0 if there is none
Terminator(data) ==
    IF \E i \in 1..Len(data) : data[i] < 128
    THEN CHOOSE i \in 1..Len(data) :
             data[i] < 128 /\ \A j \in 1..(i - 1) : data[j] >= 128
    ELSE 0

\* the low seven bits of byte j of data, 0 before the first byte
Digit(data, j) == IF j >= 1 THEN data[j] % 128 ELSE 0

\* bits 14..27 of the base-128 big-endian value of data[1..k], k <= 5
MiddleDigits(data, k) == Digit(data, k - 3) * 128 + Digit(data, k - 2)

\* the base-128 big-endian value of data[1..k], k <= 5, as a wide integer
Base128Value(data, k) ==
    <<Digit(data, k - 4) * 4096 + (MiddleDigits(data, k) \div 4),
      (MiddleDigits(data, k) % 4) * 16384 + Digit(data, k - 1) * 128 + Digit(data, k)>>

\* the conditions under which the UIntBase128 decoder has to fail
MustReject(data) ==
    \/ Len(data) = 0
    \/ data[1] = 128
    \/ Terminator(data) = 0
    \/ Terminator(data) > 5
    \/ Base128Value(data, Terminator(data))[1] >= 65536

\* out is what the UIntBase128 decoder has to give for data
DecodesExactly(data, out) ==
    IF MustReject(data) THEN ~out.ok
    ELSE out = [ok |-> TRUE,
                value |-> Base128Value(data, Terminator(data)),
                rest |-> From(data, Terminator(data))]

\* unpackBase128 of ttLib/sfnt.py fails exactly when the input starts with
\* 0x80, has no byte with a clear top bit among its first 5 bytes, ends before
\* such a byte, or encodes more than 2^32-1, and else returns the value and
\* the unread bytes
UnpackBase128OfSfnt ==
    Applied("unpackBase128") => DecodesExactly(codec.arg, codec.out)

\* C9: unpackBase128, in ttLib/sfnt.py and in ttLib/woff2.py, fails exactly
\* when the input starts with 0x80, has no byte with a clear top bit among its
\* first 5 bytes, ends before such a byte, or encodes more than 2^32-1, and
\* else returns the base-128 big-endian value of the bytes up to the first
\* one with a clear top bit, and the unread bytes.
C9_UnpackBase128 ==
    (Applied("unpackBase128") \/ Applied("woff2.unpackBase128")) =>
        DecodesExactly(codec.arg, codec.out)

\* C10: for 0 <= n <= 65535, unpack255UShort(pack255UShort(n) + rest) returns
\* (n, rest); the decoder accepts 253 followed by a big-endian u16, 254
\* followed by a byte b as b + 506, 255 followed by a byte b as b + 253, and a
\* single byte c < 253 as c.
C10_255UShort ==
    /\ (Applied("pack255UShort") /\ codec.arg \in 0..65535) =>
          codec.out = [ok |-> TRUE, value |-> codec.arg, rest |-> codec.rest]
    /\ (Applied("unpack255UShort") /\ Len(codec.arg) >= 1) =>
          /\ (codec.arg[1] = 253 /\ Len(codec.arg) >= 3) =>
                codec.out = [ok |-> TRUE,
                             value |-> codec.arg[2] * 256 + codec.arg[3],
                             rest |-> From(codec.arg, 3)]
          /\ (codec.arg[1] = 254 /\ Len(codec.arg) >= 2) =>
                codec.out = [ok |-> TRUE, value |-> codec.arg[2] + 506,
                             rest |-> From(codec.arg, 2)]
          /\ (codec.arg[1] = 255 /\ Len(codec.arg) >= 2) =>
                codec.out = [ok |-> TRUE, value |-> codec.arg[2] + 253,
                             rest |-> From(codec.arg, 2)]
          /\ codec.arg[1] < 253 =>
                codec.out = [ok |-> TRUE, value |-> codec.arg[1],
                             rest |-> From(codec.arg, 1)]

C10_Witness ==
    /\ Applied("pack255UShort")
    /\ codec.arg = 762
    /\ codec.rest = <<128, 5>>
    /\ codec.packed.data = <<253, 2, 250>>
    /\ codec.out = [ok |-> TRUE, value |-> 762, rest |-> <<128, 5>>]

\* C11 as the spec states it: pack255UShort emits one byte equal to the value
\* when value < 253 and else 253 followed by the value as a big-endian u16.
C11_WordForm ==
    (Applied("pack255UShort") /\ codec.arg \in 0..65535) =>
        /\ codec.packed.ok
        /\ codec.packed.data =
              IF codec.arg < 253 THEN <<codec.arg>>
              ELSE <<253, codec.arg \div 256, codec.arg % 256>>

\* C11: pack255UShort emits one form for every value 0..65535, the shortest:
\* one byte equal to the value when value < 253, the bytes 255, value - 253
\* when 253 <= value < 506, the bytes 254, value - 506 when 506 <= value <
\* 762, and else 253 followed by the value as a big-endian u16.
C11_ShortestForm ==
    (Applied("pack255UShort") /\ codec.arg \in 0..65535) =>
        /\ codec.packed.ok
        /\ codec.packed.data =
              IF codec.arg < 253 THEN <<codec.arg>>
              ELSE IF codec.arg < 506 THEN <<255, codec.arg - 253>>
              ELSE IF codec.arg < 762 THEN <<254, codec.arg - 506>>
              ELSE <<253, codec.arg \div 256, codec.arg % 256>>
        /\ \A i \in 1..Len(codec.packed.data) : codec.packed.data[i] \in 0..255

C11_Witness ==
    /\ Applied("pack255UShort")
    /\ codec.arg = 506
    /\ codec.rest = <<>>
    /\ codec.packed.data = <<254, 0>>

\* big-endian 32-bit word k (from 0) of data, data extended with zero bytes
WordAt(data, k) ==
    <<(IF 4 * k + 1 <= Len(data) THEN data[4 * k + 1] ELSE 0) * 256
      + (IF 4 * k + 2 <= Len(data) THEN data[4 * k + 2] ELSE 0),
      (IF 4 * k + 3 <= Len(data) THEN data[4 * k + 3] ELSE 0) * 256
      + (IF 4 * k + 4 <= Len(data) THEN data[4 * k + 4] ELSE 0)>>

\* the sum modulo 2^32 of the words lo..hi of data
RECURSIVE WordSum(_, _, _)
WordSum(data, lo, hi) ==
    IF lo > hi THEN <<0, 0>>
    ELSE IF lo = hi THEN WordAt(data, lo)
    ELSE Add32(WordSum(data, lo, (lo + hi) \div 2),
               WordSum(data, ((lo + hi) \div 2) + 1, hi))

ChecksumOf(data) == WordSum(data, 0, ((Len(data) + 3) \div 4) - 1)

\* C12: calcChecksum(data) is the sum modulo 2^32 of the big-endian 32-bit
\* words of data extended with zero bytes to a multiple of 4, whatever the
\* number of 4096-byte blocks it is summed in; it lies in 0..2^32-1, is the
\* same for data followed by the zero bytes that complete its last word, and
\* the call leaves the caller's data as it was.
C12_CalcChecksum ==
    [][(codec'.op = "calcChecksum" /\ codec'.done) =>
          /\ codec'.arg = codec.arg
          /\ codec'.out = ChecksumOf(codec.arg)
          /\ codec'.out[1] \in 0..65535
          /\ codec'.out[2] \in 0..65535
          /\ codec'.completed = codec'.out]_vars

C12_Witness ==
    /\ Applied("calcChecksum")
    /\ codec.arg = <<97, 98, 99, 100, 120, 121, 122>>
    /\ codec.out = <<55771, 56676>>
    /\ codec.completed = codec.out

\* calcChecksum on data of more than one block
C12_Blocks ==
    /\ Applied("calcChecksum")
    /\ Len(codec.arg) = 2 * blockSize + 3
    /\ codec.out = ChecksumOf(codec.arg)

(***************************************************************************)
(* Readers on files of any content: files that the Writers wrote, a font    *)
(* collection, and these files with four bytes replaced or cut short.       *)
(***************************************************************************)
\* the file a Writer of the flavor leaves after the puts ps and close()
FileOf(flavor, sfntVersion, flavorData, ps) ==
    CloseOutcome(PutAll(Outcome(NewWriter(flavor, Len(ps), sfntVersion, flavorData),
                                <<>>, "ok"), ps)).file

CmapData == <<1, 1, 1, 1, 2>>

HeadData == <<0, 1, 0, 0, 0, 2, 0, 3, 9, 9, 9, 9>>

\* the directory entry of a table of a font of a collection
CollectionEntry(tag, data, offset) ==
    sfntEntryToString([NewEntry(tag) EXCEPT !.checkSum = tableChecksum(tag, data),
                                            !.offset = offset, !.length = Len(data)])

\* a collection of two fonts: the header and the offset table (20 bytes),
\* the directory of font 0 with 'cmap' and 'head' at 20, the directory of
\* font 1, an 'OTTO' font with the same 'cmap', at 64, 'cmap' at 92 and
\* 'head' at 100
TwoFontCollection ==
    <<116, 116, 99, 102>> \o PackL(<<1, 0>>) \o PackL(<<0, 2>>)
    \o PackL(IntToW(20)) \o PackL(IntToW(64))
    \o packSfntDirectory(NewWriter("sfnt", 2, <<0, 1, 0, 0>>, NoFlavorData), 2)
    \o CollectionEntry(TagCmap, CmapData, 92)
    \o CollectionEntry(TagHead, HeadData, 100)
    \o packSfntDirectory(NewWriter("sfnt", 1, <<79, 84, 84, 79>>, NoFlavorData), 1)
    \o CollectionEntry(TagCmap, CmapData, 92)
    \o padData(CmapData) \o HeadData

TwoTables == <<<<TagCmap, CmapData>>, <<TagHead, HeadData>>>>

BaseFiles ==
    {FileOf("sfnt", <<0, 1, 0, 0>>, NoFlavorData, TwoTables),
     FileOf("sfnt", <<79, 84, 84, 79>>, NoFlavorData, <<<<TagHead, HeadData>>>>),
     FileOf("woff", <<0, 1, 0, 0>>, NoFlavorData, TwoTables),
     FileOf("woff2", <<116, 114, 117, 101>>, NoFlavorData, TwoTables),
     TwoFontCollection}

\* where four bytes are replaced: the signature, the sfntVersion of a WOFF
\* or WOFF2 file (the version of a collection), the checkSum of the first
\* entry of an SFNT file, of a font of a collection and of a WOFF file, and
\* the sfntVersion of the two fonts of the collection
PatchOffsets == {0, 4, 16, 20, 36, 60, 64}

\* 00 01 00 00, 'OTTO', 'true', 'wOFF', 'wOF2', 'ttcf', '<?xm', 00 02 00 00
\* and 'abcd'
PatchValues ==
    {<<0, 1, 0, 0>>, <<79, 84, 84, 79>>, <<116, 114, 117, 101>>,
     <<119, 79, 70, 70>>, <<119, 79, 70, 50>>, <<116, 116, 99, 102>>,
     <<60, 63, 120, 109>>, <<0, 2, 0, 0>>, <<97, 98, 99, 100>>,
     <<0, 0, 0, 0>>, <<0, 0, 0, 20>>}

CutLengths == {0, 3, 8, 16, 30}

OpenFiles ==
    {WriteAt(base, pos, v) : base \in BaseFiles, pos \in PatchOffsets, v \in PatchValues}
    \cup {Slice(base, 0, n) : base \in BaseFiles, n \in CutLengths}

FontNumbers == -1..2

\* off, warn, and two values that are fatal
OpenCheckModes == 0..3

InitOpen ==
    /\ writer = NewWriter("sfnt", 1, <<0, 1, 0, 0>>, NoFlavorData)
    /\ file \in OpenFiles
    /\ puts = <<>>
    /\ partialCloses = 0
    /\ lastOp = NoOp
    /\ result = "ok"
    /\ reader = NoReader
    /\ fetched = NoFetch
    /\ codec = NoCodec

\* SFNTReader.__new__(SFNTReader, infile) of the package ttLib/sfnt on a file
\* of the name fileName
PackageNew(fileName) ==
    /\ ~reader.open
    /\ lastOp' = [op |-> "package.__new__", tag |-> <<>>, fileName |-> fileName,
                  class |-> packageNew(file, fileName).class]
    /\ result' = packageNew(file, fileName).err
    /\ UNCHANGED <<writer, file, puts, partialCloses, reader, fetched, codec>>

\* reader = SFNTReader(file, checkChecksums, fontNumber) of ttLib/sfnt.py
Open(checkChecksums, fontNumber) ==
    /\ ~reader.open
    /\ reader' = SFNTReader(file, checkChecksums, fontNumber)
    /\ lastOp' = [op |-> "open", tag |-> <<>>, fontNumber |-> fontNumber]
    /\ result' = IF reader'.ok THEN "ok" ELSE reader'.err
    /\ UNCHANGED <<writer, file, puts, partialCloses, fetched, codec>>

\* TTCollection(file, checkChecksums=checkChecksums) of ttLib/ttc.py
OpenCollection(checkChecksums, package, fileName) ==
    /\ ~reader.open
    /\ package \/ fileName = ""
    /\ lastOp' = [op |-> "TTCollection", tag |-> <<>>, package |-> package,
                  fileName |-> fileName, checkChecksums |-> checkChecksums,
                  collection |-> TTCollection(file, checkChecksums, package, fileName)]
    /\ result' = TTCollection(file, checkChecksums, package, fileName).err
    /\ UNCHANGED <<writer, file, puts, partialCloses, reader, fetched, codec>>

NextOpen ==
    \/ \E fileName \in FileNames : PackageNew(fileName)
    \/ \E checkChecksums \in {0, 1}, package \in BOOLEAN, fileName \in FileNames :
          OpenCollection(checkChecksums, package, fileName)
    \/ \E checkChecksums \in OpenCheckModes, fontNumber \in FontNumbers :
          Open(checkChecksums, fontNumber)
    \/ \E tag \in Tags : GetItem(tag)

SpecOpen == InitOpen /\ [][NextOpen]_vars

(***************************************************************************)
(* A WOFF2 Reader on a file with transformed 'glyf' and 'loca' tables.      *)
(***************************************************************************)
MaxFetches == 3

\* tables of glyphs: an empty glyph, and a simple glyph followed by an empty
\* or a composite glyph
FetchGlyphs ==
    {<<NoGlyph>>} \cup
    {<<g, h>> : g \in {x \in GlyphChoices : x.numberOfContours = 1},
                h \in {x \in GlyphChoices : x.numberOfContours < 1}}

\* the transformed data of a table of glyphs in a format of 'loca', with the
\* lengths of the 'glyf' and 'loca' tables of the font
FetchSampleOf(glyphs, indexFormat, compiled) ==
    [raw |-> transform(glyphs, indexFormat), glyfLength |-> Len(compiled.data),
     locaLength |-> Len(packLocations(compiled.locations, 1, indexFormat))]

\* transformed 'glyf' data of fonts, and data that is cut short and that has
\* a byte too many
FetchSamples ==
    {FetchSampleOf(glyphs, indexFormat, glyfCompile(glyphs, 1, <<>>, <<>>)) :
        glyphs \in FetchGlyphs, indexFormat \in {0, 1}}
    \cup {[raw |-> Slice(OnePoint(<<1>>, <<1>>, <<5, 0>>, <<0, 0, 0, 0>>), 0, 20),
           glyfLength |-> 16, locaLength |-> 4],
          [raw |-> OnePoint(<<1>>, <<1>>, <<5, 0>>, <<0, 0, 0, 0>>) \o <<0>>,
           glyfLength |-> 16, locaLength |-> 4]}

\* the entries of a directory with 'glyf', with 'loca' or with both
FetchEntries(raw, glyfLength, locaLength) ==
    {<<[NewEntry(TagGlyf) EXCEPT !.flags = getKnownTagIndex(TagGlyf),
                                 !.origLength = glyfLength, !.length = Len(raw)],
       [NewEntry(TagLoca) EXCEPT !.flags = getKnownTagIndex(TagLoca),
                                 !.origLength = locaLength]>>,
     <<[NewEntry(TagLoca) EXCEPT !.flags = getKnownTagIndex(TagLoca),
                                 !.origLength = locaLength]>>}

\* the WOFF2 file of these entries and of this font data
woff2FileOf(entries, compressedData) ==
    padData(<<119, 79, 70, 50>> \o <<0, 1, 0, 0>>
            \o PackL(IntToW(Align4(woff2DirectorySize
                                   + Len(EntriesToString("woff2", entries))
                                   + Len(compressedData))))
            \o PackH(Len(entries)) \o PackH(0) \o PackL(<<0, 0>>)
            \o PackL(IntToW(Len(compressedData)))
            \o PackH(1) \o PackH(0)
            \o PackL(<<0, 0>>) \o PackL(<<0, 0>>) \o PackL(<<0, 0>>)
            \o PackL(<<0, 0>>) \o PackL(<<0, 0>>)
            \o EntriesToString("woff2", entries) \o compressedData)

\* files whose directory has the lengths of the original tables, or lengths
\* that are 4 bytes more
FetchFiles ==
    UNION {UNION {
        {woff2FileOf(entries,
                     brotliCompress(IF Len(entries) = 2 THEN sample.raw ELSE <<>>)) :
            entries \in FetchEntries(sample.raw, sample.glyfLength + dg,
                                     sample.locaLength + dl)} :
        dg \in {0, 4}, dl \in {0, 4}} :
        sample \in FetchSamples}

\* the entry of a table that is not transformed
PlainEntry(tag, length) ==
    [NewEntry(tag) EXCEPT !.flags = getKnownTagIndex(tag), !.origLength = length,
                          !.length = length]

DirectoryLengths == {0, 3, 4}

\* directories of one table, of two tables in the two orders, and with two
\* entries of the same tag
DirectoryEntries ==
    {<<PlainEntry(TagCmap, a)>> : a \in DirectoryLengths}
    \cup {<<PlainEntry(t[1], a), PlainEntry(t[2], b)>> :
              t \in {<<TagCmap, TagZZZZ>>, <<TagZZZZ, TagCmap>>, <<TagCmap, TagCmap>>},
              a \in DirectoryLengths, b \in DirectoryLengths}

\* files whose font data has the length of all the entries, one byte less or
\* more, or the length of the last entry
DirectoryFiles ==
    UNION {{woff2FileOf(entries, brotliCompress([i \in 1..n |-> i])) :
               n \in {m \in {SumEntryLengths(entries, 1) - 1, SumEntryLengths(entries, 1),
                              SumEntryLengths(entries, 1) + 1,
                              entries[Len(entries)].length} : m >= 0}} :
           entries \in DirectoryEntries}

InitFetch ==
    /\ writer = NewWriter("sfnt", 1, <<0, 1, 0, 0>>, NoFlavorData)
    /\ file \in FetchFiles \cup DirectoryFiles
    /\ puts = <<>>
    /\ partialCloses = 0
    /\ lastOp = NoOp
    /\ result = "ok"
    /\ reader = NoReader
    /\ fetched = NoFetch
    /\ codec = NoCodec

\* the Reader with no table reconstructed
woff2ReaderOf(module, r) ==
    IF ~r.ok THEN r
    ELSE r @@ [module |-> module, glyfData |-> NotCached, locaData |-> NotCached,
               glyfTable |-> NoGlyfTable, calls |-> 0, done |-> 0]

\* reader = WOFF2Reader(file) of ttLib/sfnt.py or of ttLib/woff2.py
OpenWoff2(module) ==
    /\ ~reader.open
    /\ reader' = woff2ReaderOf(module, NewWoff2Reader(file, 0))
    /\ lastOp' = [op |-> "open", tag |-> <<>>]
    /\ result' = IF reader'.ok THEN "ok" ELSE reader'.err
    /\ UNCHANGED <<writer, file, puts, partialCloses, fetched, codec>>

\* reader['glyf'] or reader['loca']; puts is the list of the fetches
Fetch(tag) ==
    /\ reader.open
    /\ reader.ok
    /\ Len(puts) < MaxFetches
    /\ \E out \in {IF HasTable(reader.tables, TagGlyf) /\ rawGlyf(reader).ok
                    THEN reconstruct(rawGlyf(reader).data) ELSE Failed("KeyError")} :
          \E got \in {getitemTransformed(reader, tag, out)} :
              /\ reader' = got.r
              /\ fetched' = got.fetched
              /\ puts' = Append(puts, got.fetched)
              /\ result' = IF got.fetched.ok THEN "ok" ELSE got.fetched.err
    /\ lastOp' = [op |-> "get", tag |-> tag]
    /\ UNCHANGED <<writer, file, partialCloses, codec>>

NextFetch ==
    \/ \E module \in {"sfnt.py", "woff2.py"} : OpenWoff2(module)
    \/ \E tag \in woff2TransformedTableTags : Fetch(tag)
    \/ \E tag \in Tags : GetItem(tag)

SpecFetch == InitFetch /\ [][NextFetch]_vars

(***************************************************************************)
(* A WOFF2 Writer that is given a 'loca' table, and the entries of its      *)
(* directory read back.                                                     *)
(***************************************************************************)
LocaTags == {TagHead, TagLoca, TagZZZZ}

\* 'head' tables of 12 and 14 bytes, 'loca' tables of one and of two glyphs
\* in the short format, an empty table and one of 5 bytes
LocaPayloads(tag) ==
    IF tag = TagHead
    THEN {<<0, 1, 0, 0, 0, 2, 0, 3, 9, 9, 9, 9>>,
          <<0, 1, 0, 0, 0, 2, 0, 3, 9, 9, 9, 9, 95, 15>>}
    ELSE IF tag = TagLoca THEN {<<0, 0, 0, 4>>, <<0, 0, 0, 2, 0, 4>>}
    ELSE {<<>>, <<1, 1, 1, 1, 2>>}

\* the reserved bits that are set in the flags of an entry
ReservedBits == {0, 64, 128, 192}

TransformLengths == {0, 1, 300}

InitWoff2 ==
    /\ \E n \in 1..MaxTables : writer = NewWriter("woff2", n, <<0, 1, 0, 0>>, NoFlavorData)
    /\ file = <<>>
    /\ puts = <<>>
    /\ partialCloses = 0
    /\ lastOp = NoOp
    /\ result = "ok"
    /\ reader = NoReader
    /\ fetched = NoFetch
    /\ codec = NoCodec

\* entry.fromString(data) on the bytes of entry k of the directory that was
\* written, with reserved bits set in the flags, with the tag written out
\* after flags of 0x3F, and with a transformLength
FromString(k, bits, unknown, transformLength) ==
    /\ writer.closed /\ ~reader.open /\ codec = NoCodec
    /\ k \in 1..Len(writer.tables)
    /\ \E e \in {[writer.tables[k] EXCEPT
                     !.flags = bits + (IF unknown THEN 63 ELSE @),
                     !.length = IF @ = 0 THEN transformLength ELSE @]} :
          codec' = [op |-> "fromString", done |-> TRUE, entry |-> e,
                    arg |-> woff2EntryToString(e),
                    out |-> woff2EntryFromString(woff2EntryToString(e))]
    /\ UNCHANGED ioVars

NextWoff2 ==
    \/ \E tag \in LocaTags : \E data \in LocaPayloads(tag) : Put(tag, data)
    \/ Close
    \/ OpenReader(0)
    \/ \E tag \in Tags : GetItem(tag)
    \/ \E k \in 1..MaxTables, bits \in ReservedBits, unknown \in BOOLEAN,
          transformLength \in TransformLengths :
          FromString(k, bits, unknown, transformLength)

SpecWoff2 == InitWoff2 /\ [][NextWoff2]_vars

(***************************************************************************)
(* Properties of the Readers.                                               *)
(***************************************************************************)
\* the first four bytes of the file
Signature == ReadAt(file, 0, 4)

\* 00 01 00 00, 'OTTO' and 'true'
Accepted == {<<0, 1, 0, 0>>, <<79, 84, 84, 79>>, <<116, 114, 117, 101>>}

\* 'wOFF', 'wOF2' and 'ttcf'
Containers == {<<119, 79, 70, 70>>, <<119, 79, 70, 50>>, <<116, 116, 99, 102>>}

ClassOfSignature(sig) ==
    IF sig = <<119, 79, 70, 70>> THEN "woff"
    ELSE IF sig = <<119, 79, 70, 50>> THEN "woff2"
    ELSE IF sig = <<116, 116, 99, 102>> THEN "ttc"
    ELSE "sfnt"

\* the sfntVersion inside the container: of the file itself, of the header
\* of a WOFF or WOFF2 file, of the font fontNumber of a collection
InnerVersion(class, fontNumber) ==
    IF class = "sfnt" THEN ReadAt(file, 0, 4)
    ELSE IF class \in {"woff", "woff2"} THEN ReadAt(file, 4, 4)
    ELSE ReadAt(file, U32(ReadAt(file, 12 + 4 * fontNumber, 4)), 4)

\* a Reader of ttLib/sfnt.py is of the class of the first four bytes, and
\* there is none for other leading bytes or another inner sfntVersion
DispatchOfOpen ==
    lastOp.op = "open" =>
        /\ Signature \in Accepted \cup Containers =>
              reader.class = ClassOfSignature(Signature)
        /\ Signature \notin Accepted \cup Containers => ~reader.ok
        /\ reader.ok =>
              /\ reader.flavor = reader.class
              /\ InnerVersion(reader.class, lastOp.fontNumber) \in Accepted
              /\ reader.sfntVersion = InnerVersion(reader.class, lastOp.fontNumber)

\* the class the package ttLib/sfnt picks is that of the first four bytes,
\* and other leading bytes are an error
DispatchOfPackage ==
    /\ Signature \in Accepted \cup Containers =>
          lastOp.class = ClassOfSignature(Signature) /\ result = "ok"
    /\ Signature \notin Accepted \cup Containers =>
          lastOp.class = "none" /\ result = "Unsupported file type"

C13_Woff2 ==
    lastOp.op = "open" /\ reader.ok /\ reader.class = "woff2" /\ Len(reader.tables) = 2

\* a WOFF file with other leading bytes, and one with another sfntVersion
C13_Rejected ==
    /\ lastOp.op = "open"
    /\ ~reader.ok
    /\ \/ Signature = <<60, 63, 120, 109>>
       \/ Signature = <<119, 79, 70, 70>> /\ ReadAt(file, 4, 4) = <<97, 98, 99, 100>>

\* a WOFF file that has a name ending in .dfont
C13_Dfont ==
    /\ lastOp.op = "package.__new__"
    /\ lastOp.fileName = "font.dfont"
    /\ Signature = <<119, 79, 70, 70>>
    /\ lastOp.class = "sfnt"

\* data with bytes 8..11 replaced by zeros when the table is 'head'
ZeroedAdjustment(tag, data) ==
    [i \in 1..Len(data) |-> IF tag = TagHead /\ i \in 9..12 THEN 0 ELSE data[i]]

\* the checksum of the stored data of a table is that of its directory entry
ChecksumMatches(entry, data) ==
    ChecksumOf(ZeroedAdjustment(entry.tag, data)) = entry.checkSum

\* C14: a fetch from an SFNT or WOFF reader returns the data without a
\* comparison when checkChecksums is 0, returns it with a warning when
\* checkChecksums is 1 and the checksum differs from the entry's checkSum,
\* and when checkChecksums is 2 or more fails on a difference and returns
\* the data only when the checksums are equal; the checksum of 'head' is
\* that of the data with bytes 8..11 replaced by zeros.
C14_ChecksumModes ==
    (lastOp.op = "get" /\ reader.flavor \in {"sfnt", "woff"}) =>
        \A entry \in {TableOf(reader.tables, lastOp.tag)} :
        \A loaded \in {loadData(reader.flavor, entry, file)} :
            loaded.ok =>
                /\ reader.checkChecksums = 0 =>
                      fetched.ok /\ fetched.data = loaded.data /\ ~fetched.warned
                /\ reader.checkChecksums = 1 =>
                      /\ fetched.ok /\ fetched.data = loaded.data
                      /\ fetched.warned <=> ~ChecksumMatches(entry, loaded.data)
                /\ reader.checkChecksums >= 2 =>
                      /\ fetched.ok <=> ChecksumMatches(entry, loaded.data)
                      /\ fetched.ok => fetched.data = loaded.data
                      /\ ~fetched.ok => fetched.err = "bad checksum"

\* the default mode returns the data of a table whose checksum is not that
\* of its entry
C14_Witness ==
    /\ lastOp.op = "get"
    /\ reader.flavor = "woff"
    /\ reader.checkChecksums = 1
    /\ fetched.ok /\ fetched.warned
    /\ fetched.data = CmapData

\* the fetch of the same table fails when checkChecksums is 3
C14_Fatal ==
    /\ lastOp.op = "get"
    /\ reader.flavor = "sfnt"
    /\ reader.checkChecksums = 3
    /\ ~fetched.ok /\ fetched.err = "bad checksum"

\* the checksum of 'head' is compared, and is equal, in the fatal mode
C14_Head ==
    /\ lastOp.op = "get"
    /\ lastOp.tag = TagHead
    /\ reader.flavor \in {"sfnt", "woff"}
    /\ reader.checkChecksums = 2
    /\ fetched.ok /\ fetched.data[9] # 0

\* C15: after close() of a WOFF or WOFF2 Writer the header field 'length'
\* is the number of bytes of the output, with or without metaData and
\* privData, and a Reader does not find the length different from the file
\* size; metaOffset and privOffset are multiples of 4 when the block is
\* there and 0 when it is not, and the metadata is padded only when the
\* private block follows it.
C15_HeaderLength ==
    (writer.closed /\ writer.flavor \in {"woff", "woff2"}) =>
        /\ writer.hdr.length = Len(file)
        /\ U32(ReadAt(file, 8, 4)) = Len(file)
        /\ reader.open =>
              (reader.ok \/ reader.err # "reported 'length' doesn't match the actual file size")
        /\ IF Len(writer.flavorData.metaData) > 0
           THEN writer.hdr.metaOffset > 0 /\ writer.hdr.metaOffset % 4 = 0
           ELSE writer.hdr.metaOffset = 0
        /\ IF Len(writer.flavorData.privData) > 0
           THEN writer.hdr.privOffset > 0 /\ writer.hdr.privOffset % 4 = 0
           ELSE writer.hdr.privOffset = 0
        /\ (Len(writer.flavorData.metaData) > 0 /\ Len(writer.flavorData.privData) > 0) =>
              writer.hdr.privOffset = Align4(writer.hdr.metaOffset + writer.hdr.metaLength)
        /\ (Len(writer.flavorData.metaData) > 0 /\ Len(writer.flavorData.privData) = 0) =>
              Len(file) = writer.hdr.metaOffset + writer.hdr.metaLength

\* the same for the files in which 'head' has the 12 bytes that hold the
\* checkSumAdjustment
C15_HeaderLengthOfLongHead ==
    (HasTable(writer.tables, TagHead) /\ Len(PutData(TagHead)) >= 12) => C15_HeaderLength

(***************************************************************************)
(* Properties of the triplet coder.                                         *)
(***************************************************************************)
\* the absolute coordinates of point i of the glyph of the relative points
RECURSIVE SumX(_, _)
SumX(points, i) == IF i = 0 THEN 0 ELSE points[i].x + SumX(points, i - 1)

RECURSIVE SumY(_, _)
SumY(points, i) == IF i = 0 THEN 0 ELSE points[i].y + SumY(points, i - 1)

\* the number of glyph stream bytes of a point: the least of the six forms
\* that holds its relative coordinates
BytesOfPoint(pt) ==
    IF (pt.x = 0 /\ Abs(pt.y) < 1280) \/ (pt.y = 0 /\ Abs(pt.x) < 1280) THEN 1
    ELSE IF Abs(pt.x) < 65 /\ Abs(pt.y) < 65 THEN 1
    ELSE IF Abs(pt.x) < 769 /\ Abs(pt.y) < 769 THEN 2
    ELSE IF Abs(pt.x) < 4096 /\ Abs(pt.y) < 4096 THEN 3
    ELSE 4

RECURSIVE StreamBytes(_, _)
StreamBytes(points, i) ==
    IF i = 0 THEN 0 ELSE BytesOfPoint(points[i]) + StreamBytes(points, i - 1)

\* C16: for points with |dx|, |dy| <= 32767 the encoder emits one flag byte
\* for each point, with bit 7 set exactly when the point is off the curve,
\* and one to four glyph stream bytes; the decoder recovers dx, dy and the
\* on-curve bit of every point from them and consumes exactly the bytes the
\* encoder emitted, whatever follows them in the streams.
C16_Triplets ==
    Applied("encodeTriplets") =>
        /\ Len(codec.packed.flags) = Len(codec.arg)
        /\ \A i \in 1..Len(codec.arg) :
              /\ codec.packed.flags[i] \in 0..255
              /\ codec.packed.flags[i] >= 128 <=> codec.arg[i].onCurve = 0
        /\ Len(codec.packed.triplets) = StreamBytes(codec.arg, Len(codec.arg))
        /\ \A i \in 1..Len(codec.packed.triplets) : codec.packed.triplets[i] \in 0..255
        /\ codec.out.ok
        /\ Len(codec.out.points) = Len(codec.arg)
        /\ \A i \in 1..Len(codec.arg) :
              /\ codec.out.points[i].x = SumX(codec.arg, i)
              /\ codec.out.points[i].y = SumY(codec.arg, i)
              /\ codec.out.points[i].onCurve = codec.arg[i].onCurve
        /\ codec.out.bytesConsumed = Len(codec.packed.triplets)
        /\ codec.out.flagStream = codec.rest
        /\ codec.out.glyphStream = codec.rest

\* two points off the curve, of three and of two bytes, before other data
C16_Witness ==
    /\ Applied("encodeTriplets")
    /\ codec.arg = <<NewPoint(-4000, 700, 0), NewPoint(700, -3, 0)>>
    /\ codec.rest = <<200, 7>>
    /\ codec.packed.flags = <<250, 237>>
    /\ codec.out.ok
    /\ codec.out.points[2] = NewPoint(-3300, 697, 0)
    /\ codec.out.bytesConsumed = 5

\* a point of the longest form
C16_FourBytes ==
    /\ Applied("encodeTriplets")
    /\ codec.arg = <<NewPoint(-32767, 4096, 1)>>
    /\ codec.packed.flags = <<126>>
    /\ codec.packed.triplets = <<127, 255, 16, 0>>
    /\ codec.out.ok

(***************************************************************************)
(* Properties of the 'glyf' transform.                                      *)
(***************************************************************************)
\* reconstruct on the output of transform gives, for every glyph index, the
\* glyph that was transformed
GlyphsRecovered ==
    Applied("transform") =>
        /\ codec.out.ok
        /\ codec.out.indexFormat = codec.rest
        /\ Len(codec.out.glyphs) = Len(codec.arg)
        /\ \A i \in 1..Len(codec.arg) :
              /\ codec.out.glyphs[i].numberOfContours = codec.arg[i].numberOfContours
              /\ codec.out.glyphs[i].endPtsOfContours = codec.arg[i].endPtsOfContours
              /\ codec.out.glyphs[i].flags = codec.arg[i].flags
              /\ codec.out.glyphs[i].coordinates = codec.arg[i].coordinates
              /\ codec.out.glyphs[i].bbox = codec.arg[i].bbox
              /\ codec.out.glyphs[i].components = codec.arg[i].components
              /\ codec.out.glyphs[i].program = codec.arg[i].program
        /\ codec.again = codec.packed

C17_LongTable ==
    /\ Applied("transform")
    /\ Len(codec.arg) = 34
    /\ codec.out.ok
    /\ codec.out.glyphs = codec.arg
    /\ Slice(substream(codec.packed, 6), 0, 8) = <<0, 128, 64, 0, 64, 0, 0, 0>>

\* transformed data with a point in the form of four bytes: the glyphs are
\* read, and transform writes the point in one byte
C17_LongForm ==
    /\ Applied("reconstruct")
    /\ substream(codec.arg, 3) = <<127>>
    /\ codec.out.ok
    /\ codec.out.glyphs[1].coordinates = <<<<0, 5>>>>
    /\ codec.again # codec.arg
    /\ substream(codec.again, 3) = <<1>>

\* transformed data that reconstruct does not take
C17_Refused ==
    /\ Applied("reconstruct")
    /\ ~codec.out.ok
    /\ codec.out.err = "incorrect size of transformed 'glyf' table"

(***************************************************************************)
(* Properties of the collection Reader.                                     *)
(***************************************************************************)
\* the header of the collection in the file is read without an error
CollectionHeaderRead == readCollectionHeader(file).ok

\* the SFNT Reader on the file from the Offset Table of font i on
ReaderOfFont(i, checkChecksums) ==
    NewReaderOfClass("sfnt", From(file, readCollectionHeader(file).offsetTables[i + 1]),
                     checkChecksums)

\* r has the directory of the reader s, or fails as s fails
SameDirectory(r, s) ==
    /\ r.ok = s.ok
    /\ r.ok => /\ r.sfntVersion = s.sfntVersion
               /\ r.numTables = s.numTables
               /\ r.tables = s.tables
    /\ ~r.ok => r.err = s.err

\* a Reader opened with a font number of the collection has the directory
\* of the SFNT Reader at offsetTable[fontNumber]
FontOfCollection ==
    (/\ lastOp.op = "open"
     /\ reader.class = "ttc"
     /\ CollectionHeaderRead
     /\ 0 <= lastOp.fontNumber
     /\ lastOp.fontNumber < readCollectionHeader(file).numFonts)
    => /\ SameDirectory(reader, ReaderOfFont(lastOp.fontNumber, reader.checkChecksums))
       /\ reader.ok => reader.flavor = "ttc"

\* C18 as stated: a collection opened with fontNumber -1 gives one Reader for
\* each font of the collection, on the same stream, and so does TTCollection;
\* a collection opened with a font number gives the directory of the SFNT
\* Reader at offsetTable[fontNumber].
C18_Collection ==
    /\ FontOfCollection
    /\ (/\ lastOp.op = "open"
        /\ lastOp.fontNumber = -1
        /\ readerClass(file) = "ttc"
        /\ CollectionHeaderRead)
       => reader.ok
    /\ (lastOp.op = "TTCollection" /\ CollectionHeaderRead)
       => /\ Len(lastOp.collection.fonts) = readCollectionHeader(file).numFonts
          /\ \A i \in 1..Len(lastOp.collection.fonts) :
                SameDirectory(lastOp.collection.fonts[i],
                              ReaderOfFont(i - 1, lastOp.checkChecksums))

\* a collection of two fonts is opened with fontNumber -1 and there is no
\* Reader
C18_NotImplemented ==
    /\ lastOp.op = "open"
    /\ lastOp.fontNumber = -1
    /\ file = TwoFontCollection
    /\ ~reader.ok
    /\ reader.err = "NotImplementedError"

\* TTCollection on a collection of two fonts, with the SFNTReader of
\* ttLib/sfnt.py, has no font
C18_NoFonts ==
    /\ lastOp.op = "TTCollection"
    /\ ~lastOp.package
    /\ file = TwoFontCollection
    /\ ~lastOp.collection.ok
    /\ lastOp.collection.fonts = <<>>
    /\ lastOp.collection.err = "Not a TrueType or OpenType font (bad sfntVersion)"

\* and so with the SFNTReader of the package ttLib/sfnt
C18_NoFontsOfPackage ==
    /\ lastOp.op = "TTCollection"
    /\ lastOp.package
    /\ lastOp.fileName = ""
    /\ file = TwoFontCollection
    /\ ~lastOp.collection.ok
    /\ lastOp.collection.fonts = <<>>
    /\ lastOp.collection.err = "Not a Font Collection (bad TTCTag)"

\* the second font of a collection of two fonts is opened
C18_SecondFont ==
    /\ lastOp.op = "open"
    /\ lastOp.fontNumber = 1
    /\ file = TwoFontCollection
    /\ reader.ok
    /\ reader.sfntVersion = <<79, 84, 84, 79>>
    /\ reader.numTables = 1

(***************************************************************************)
(* Properties of woff2NormaliseFont.                                        *)
(***************************************************************************)
\* C19 as stated: after the normalisation bit 11 of the 'head' flags is set
\* and there is no DSIG table, whether or not the font had one, and the
\* flags differ from the flags before in bit 11 only.
C19_Bit11Set ==
    Applied("woff2NormaliseFont") =>
        /\ (codec.out.flags \div 2048) % 2 = 1
        /\ "DSIG" \notin codec.out.tables
        /\ ClearBit(codec.out.flags, 11) = ClearBit(codec.arg.flags, 11)

\* what the normalisation does: no DSIG table is left and the other tables
\* are kept; the flags differ in bit 11 only; bit 11 is set when the font had
\* a DSIG table, and is as it was when the font had none
C19_Bit11OfSigned ==
    Applied("woff2NormaliseFont") =>
        /\ codec.out.tables = codec.arg.tables \ {"DSIG"}
        /\ ClearBit(codec.out.flags, 11) = ClearBit(codec.arg.flags, 11)
        /\ "DSIG" \in codec.arg.tables => codec.out.flags = SetBit(codec.arg.flags, 11)
        /\ "DSIG" \notin codec.arg.tables => codec.out.flags = codec.arg.flags

\* a font without a DSIG table and with the flags 1 has the flags 1 after
\* the normalisation
C19_Unsigned ==
    /\ Applied("woff2NormaliseFont")
    /\ "DSIG" \notin codec.arg.tables
    /\ codec.arg.flags = 1
    /\ codec.out.flags = 1

\* a font with a DSIG table and with the flags 1 has the flags 2049
C19_Signed ==
    /\ Applied("woff2NormaliseFont")
    /\ "DSIG" \in codec.arg.tables
    /\ codec.arg.flags = 1
    /\ codec.out.flags = 2049
    /\ "DSIG" \notin codec.out.tables

(***************************************************************************)
(* Properties of the order of the tables of a WOFF2 file.                   *)
(***************************************************************************)
\* the tags of the entries are in ascending order
Ascending(tables) ==
    \A i, j \in 1..Len(tables) : i < j => TagLess(tables[i].tag, tables[j].tag)

\* the entries of the directory that is in the file
DirectoryOfFile ==
    woff2ReadDirectoryEntries(file, woff2DirectorySize, 0,
        unpackWoff2Directory(ReadAt(file, 0, woff2DirectorySize)).numTables, <<>>, 0)

\* the first body is at 0 and every other body is where the body before it
\* ends, and the stream ends where the last body ends
Contiguous(tables, stream) ==
    /\ \A i \in 1..Len(tables) :
          tables[i].offset = IF i = 1 THEN 0
                             ELSE tables[i - 1].offset + tables[i - 1].length
    /\ Len(stream) = SumEntryLengths(tables, 1)

\* the directory and the bodies of a closed WOFF2 Writer are in the order of
\* the tags and the bodies follow one another
SortedAndContiguous ==
    /\ Len(writer.tables) = Len(puts)
    /\ Ascending(writer.tables)
    /\ DirectoryOfFile.ok
    /\ Ascending(DirectoryOfFile.tables)
    /\ {DirectoryOfFile.tables[i].tag : i \in 1..Len(puts)} = PutTags
    /\ Contiguous(writer.tables, writer.transformBuffer)
    /\ \A i \in 1..Len(writer.tables) :
          Len(PutData(writer.tables[i].tag)) = writer.tables[i].length

\* C20 as stated: after close() of a WOFF2 Writer, whatever the order of the
\* puts, the entries of the directory and the bodies in the uncompressed
\* stream are in ascending order of the tags, every body starts where the
\* body before it ends, the first at 0, and the tableOrder of a Reader on the
\* output is the sorted list of the tags.
C20_SortedByTag ==
    (writer.flavor = "woff2" /\ writer.closed) =>
        /\ SortedAndContiguous
        /\ reader.open =>
              /\ reader.ok
              /\ \A order \in tableOrder(reader.tables) :
                    order = [i \in 1..Len(writer.tables) |-> writer.tables[i].tag]

\* the same for the fonts whose 'head' has at least 12 bytes and whose
\* tables are not empty, with the only tableOrder there is
C20_SortedByTagOfLongHead ==
    (/\ writer.flavor = "woff2"
     /\ writer.closed
     /\ Len(PutData(TagHead)) >= 12
     /\ \A i \in 1..Len(puts) : Len(puts[i][2]) > 0) =>
        /\ SortedAndContiguous
        /\ reader.open =>
              /\ reader.ok
              /\ tableOrder(reader.tables) =
                    {[i \in 1..Len(writer.tables) |-> writer.tables[i].tag]}

\* the order of the tags whatever the fonts, in the file and in the Writer
C20_DirectorySorted ==
    (writer.flavor = "woff2" /\ writer.closed) =>
        /\ Ascending(writer.tables)
        /\ DirectoryOfFile.ok
        /\ Ascending(DirectoryOfFile.tables)
        /\ \A i \in 1..Len(writer.tables) :
              writer.tables[i].offset = IF i = 1 THEN 0
                                        ELSE writer.tables[i - 1].offset
                                             + writer.tables[i - 1].length

\* 'head' of 8 bytes is put after 'ZZZZ' and is the last table: the stream is
\* longer than the tables and there is no Reader
C20_ShortHead ==
    /\ writer.flavor = "woff2"
    /\ writer.closed
    /\ Len(puts) = 2
    /\ puts[1][1] = TagZZZZ
    /\ puts[2] = <<TagHead, <<0, 1, 0, 0, 0, 2, 0, 3>>>>
    /\ Len(writer.transformBuffer) > SumEntryLengths(writer.tables, 1)
    /\ reader.open
    /\ ~reader.ok
    /\ reader.err = "unexpected size for decompressed font data"

\* 'head' is put before 'cmap', and 'cmap' is the first table in the file
C20_PutOrder ==
    /\ writer.flavor = "woff2"
    /\ writer.closed
    /\ Len(puts) = 2
    /\ puts[1][1] = TagHead
    /\ Len(puts[1][2]) = 12
    /\ puts[2] = <<TagCmap, <<1, 1, 1, 1, 2>>>>
    /\ reader.open
    /\ reader.ok
    /\ tableOrder(reader.tables) = {<<TagCmap, TagHead>>}
    /\ reader.tables[2].offset = 5

\* an empty 'cmap' and 'head' are at the same offset: tableOrder is one of
\* two lists
C20_SameOffset ==
    /\ writer.flavor = "woff2"
    /\ writer.closed
    /\ reader.open
    /\ reader.ok
    /\ tableOrder(reader.tables) = {<<TagCmap, TagHead>>, <<TagHead, TagCmap>>}

(***************************************************************************)
(* The fetch of 'glyf' and 'loca' from a WOFF2 Reader.                      *)
(***************************************************************************)
\* the Reader is open on a file it could read
Fetching == reader.open /\ reader.ok

\* the fetches of tag that returned data
Returned(tag) == {i \in 1..Len(puts) : puts[i].tag = tag /\ puts[i].ok}

\* the step is a fetch of 'loca' that found the entry and no data of 'loca'
\* kept
FetchesLoca ==
    /\ Fetching /\ lastOp'.op = "get" /\ lastOp'.tag = TagLoca
    /\ Len(puts') = Len(puts) + 1
    /\ HasTable(reader.tables, TagLoca)
    /\ ~reader.locaData.has

RECURSIVE EntriesRead(_, _, _)
EntriesRead(f, pos, i) ==
    IF i = unpackWoff2Directory(ReadAt(f, 0, woff2DirectorySize)).numTables THEN <<>>
    ELSE LET data == ReadAt(f, pos, woff2DirectoryEntryMaxSize)
         IN  <<woff2EntryFromString(data).entry>>
             \o EntriesRead(f, pos + (Len(data) - Len(woff2EntryFromString(data).left)),
                            i + 1)

\* the bytes of the buffer that are in the range of the entry
RangeOf(e) == {k \in 0..(e.offset + e.length - 1) : k >= e.offset}

\* the offset of entry i read is the sum of the lengths of the entries read
\* before it, and this is the entry the Reader has
HasPrefixSum(read, i) ==
    \E k \in 1..Len(reader.tables) :
        /\ reader.tables[k].tag = read[i].tag
        /\ reader.tables[k].length = read[i].length
        /\ reader.tables[k].offset = SumEntryLengths(SubSeq(read, 1, i - 1), 1)

\* C22: a WOFF2 Reader that was constructed has every entry read from the
\* directory with the sum of the lengths of the entries before it as offset;
\* its decompressed data has the sum of the lengths of all the entries read
\* as size; and the ranges of its entries are pairwise disjoint and cover the
\* decompressed data exactly
C22_PrefixSums ==
    Fetching =>
        /\ \A i \in 1..Len(EntriesRead(file, woff2DirectorySize, 0)) :
              HasPrefixSum(EntriesRead(file, woff2DirectorySize, 0), i)
        /\ Len(reader.transformBuffer)
              = SumEntryLengths(EntriesRead(file, woff2DirectorySize, 0), 1)
        /\ \A i, j \in 1..Len(reader.tables) :
              i # j => RangeOf(reader.tables[i]) \cap RangeOf(reader.tables[j]) = {}
        /\ UNION {RangeOf(reader.tables[i]) : i \in 1..Len(reader.tables)}
              = {k \in 0..(Len(reader.transformBuffer) - 1) : TRUE}

\* the tags of the entries read are all different
DistinctTags ==
    \A i, j \in 1..Len(EntriesRead(file, woff2DirectorySize, 0)) :
        i # j => EntriesRead(file, woff2DirectorySize, 0)[i].tag
                 # EntriesRead(file, woff2DirectorySize, 0)[j].tag

\* what holds of every directory: the Reader is constructed exactly when the
\* decompressed data has the sum of the lengths of the entries it keeps, one
\* for each tag, as size
C22_OfDistinctTags == (Fetching /\ DistinctTags) => C22_PrefixSums

\* a Reader was constructed on a directory with two entries of a tag and
\* font data of the length of the second
C22_SameTagTwice ==
    /\ Fetching /\ ~DistinctTags
    /\ Len(reader.transformBuffer) = 3
    /\ SumEntryLengths(EntriesRead(file, woff2DirectorySize, 0), 1) = 7
    /\ fetched.tag = TagCmap /\ ~fetched.ok

\* a Reader was constructed on a directory of two tables of 3 and 4 bytes
C22_Witness ==
    /\ Fetching /\ Len(reader.tables) = 2 /\ Len(reader.transformBuffer) = 7
    /\ reader.tables[2].offset = 3
    /\ fetched.tag = TagZZZZ /\ fetched.ok /\ fetched.data = <<4, 5, 6, 7>>

(***************************************************************************)
(* The reserved bits of the flags and the transformLength of 'loca'.        *)
(***************************************************************************)
\* C23: fromString raises an error on every entry with bit 6 or bit 7 of the
\* flags set and on every entry of 'loca' with a transformLength that is not
\* 0; and in the directory a WOFF2 Writer has written every entry has bits 6
\* and 7 of its flags clear and the entry of 'loca' has the transformLength 0
C23_ReservedBits ==
    /\ Applied("fromString") =>
          ((codec.entry.flags >= 64
            \/ (codec.entry.tag = TagLoca /\ codec.entry.length # 0))
           => ~codec.out.ok)
    /\ writer.closed =>
          /\ \A i \in 1..Len(writer.tables) :
                /\ writer.tables[i].flags \div 64 = 0
                /\ writer.tables[i].tag = TagLoca => writer.tables[i].length = 0
          /\ ReadAt(file, woff2DirectorySize, Len(EntriesToString("woff2", writer.tables)))
                = EntriesToString("woff2", writer.tables)

\* a Writer wrote the entry of a 'loca' table of 6 bytes, and the entry is
\* rejected with a transformLength of 1 and with bit 7 of the flags set
C23_Witness ==
    /\ writer.closed /\ HasTable(writer.tables, TagLoca)
    /\ TableOf(writer.tables, TagLoca).origLength = 6
    /\ Applied("fromString") /\ codec.entry.tag = TagLoca /\ ~codec.out.ok
    /\ \/ codec.entry.flags = 11 /\ codec.entry.length = 1
       \/ codec.entry.flags = 139 /\ codec.entry.length = 0

\* the entry of 'loca' as it was written is read back
C23_Accepted ==
    /\ Applied("fromString") /\ codec.entry.tag = TagLoca /\ codec.out.ok
    /\ codec.out.entry.origLength = 4 /\ codec.out.entry.length = 0

(***************************************************************************)
(* The bytes of an entry of the WOFF2 directory.                            *)
(***************************************************************************)
\* the bytes of the entry from byte k on (from 0)
EntryFrom(k) == From(codec.packed, k)

\* where the tag ends in the bytes of the entry
AfterTag == IF codec.arg.flags % 64 = 63 THEN 5 ELSE 1

\* C24: toString gives the byte of the flags, then the 4 bytes of the tag if
\* and only if the low 6 bits of the flags are 0x3F, then the origLength as
\* UIntBase128, then the length as UIntBase128 if and only if the tag is
\* 'glyf' or 'loca', and nothing else; fromFile, on a file that has these
\* bytes at its position and whatever bytes after them, gives the same tag,
\* origLength and length and leaves the file at the end of the entry
C24_EntryRoundTrip ==
    Applied("toString") =>
        /\ codec.packed[1] = codec.arg.flags
        /\ codec.arg.flags % 64 = 63 => Slice(codec.packed, 1, 5) = codec.arg.tag
        /\ unpackBase128(EntryFrom(AfterTag)).ok
        /\ WToInt(unpackBase128(EntryFrom(AfterTag)).value) = codec.arg.origLength
        /\ codec.arg.tag \notin woff2TransformedTableTags
              => /\ unpackBase128(EntryFrom(AfterTag)).rest = <<>>
                 /\ codec.arg.length = codec.arg.origLength
        /\ codec.arg.tag \in woff2TransformedTableTags
              => /\ unpackBase128(unpackBase128(EntryFrom(AfterTag)).rest).ok
                 /\ WToInt(unpackBase128(unpackBase128(EntryFrom(AfterTag)).rest).value)
                       = codec.arg.length
                 /\ unpackBase128(unpackBase128(EntryFrom(AfterTag)).rest).rest = <<>>
        /\ codec.out.ok
        /\ codec.out.entry.tag = codec.arg.tag
        /\ codec.out.entry.origLength = codec.arg.origLength
        /\ codec.out.entry.length = codec.arg.length
        /\ codec.out.pos = Len(codec.rest.before) + Len(codec.packed)

\* the entry of a 'glyf' table of 70000 bytes and 16384 bytes of transformed
\* data is written with its tag and read back from the middle of a file
C24_Witness ==
    /\ Applied("toString") /\ codec.arg.tag = TagGlyf /\ codec.arg.flags = 63
    /\ codec.arg.origLength = 70000 /\ codec.arg.length = 16384
    /\ codec.packed = <<63>> \o TagGlyf \o <<132, 162, 112>> \o <<129, 128, 0>>
    /\ Len(codec.rest.before) = 3 /\ Len(codec.rest.after) = 16
    /\ codec.out.ok /\ codec.out.pos = 14

\* the entry of a 'cmap' table of 128 bytes is two bytes of the file
C24_KnownTag ==
    /\ Applied("toString") /\ codec.arg.tag = TagCmap /\ codec.arg.flags = 0
    /\ codec.packed = <<0, 129, 0>> /\ codec.rest.after = <<128, 5>>
    /\ codec.out.ok /\ codec.out.entry.length = 128 /\ codec.out.pos = 3

(***************************************************************************)
(* The stored form of the tables of a WOFF Writer.                          *)
(***************************************************************************)
\* the bytes of the file in the range of the entry
StoredBytes(e) == ReadAt(file, e.offset, e.length)

\* the entry is stored in the compressed form of its data
StoredCompressed(e) == StoredBytes(e) = zlibCompress(PutData(e.tag))

\* the entry is stored as the data itself
StoredRaw(e) == StoredBytes(e) = PutData(e.tag)

\* C25: of every table a WOFF Writer has stored, the bytes in the file are
\* the zlib-compressed data if the entry is not marked uncompressed and the
\* compressed data is strictly shorter than the data, and the data itself
\* otherwise; length <= origLength, with equality exactly when the data is
\* stored raw; 'head' is stored raw; and decodeData of the stored bytes, which
\* compares length with origLength, returns the data that was put
C25_StoredForm ==
    (writer.flavor = "woff" /\ ~writer.closed) =>
        \A i \in 1..Len(writer.tables) :
            /\ writer.tables[i].origLength = Len(PutData(writer.tables[i].tag))
            /\ StoredCompressed(writer.tables[i])
                  <=> (/\ ~writer.tables[i].uncompressed
                       /\ Len(zlibCompress(PutData(writer.tables[i].tag)))
                             < Len(PutData(writer.tables[i].tag)))
            /\ StoredCompressed(writer.tables[i]) \/ StoredRaw(writer.tables[i])
            /\ writer.tables[i].length <= writer.tables[i].origLength
            /\ writer.tables[i].length = writer.tables[i].origLength
                  <=> StoredRaw(writer.tables[i])
            /\ writer.tables[i].tag = TagHead => StoredRaw(writer.tables[i])
            /\ decodeData("woff", writer.tables[i], StoredBytes(writer.tables[i]))
                  = [ok |-> TRUE, data |-> PutData(writer.tables[i].tag)]

\* a WOFF Writer has stored a table of 8 bytes in 3 bytes and a table of 5
\* bytes, which zlib does not make shorter, as it is
C25_Witness ==
    /\ writer.flavor = "woff" /\ ~writer.closed /\ Len(writer.tables) = 2
    /\ writer.tables[1].origLength = 8 /\ writer.tables[1].length < 8
    /\ StoredCompressed(writer.tables[1])
    /\ writer.tables[2].origLength = 5 /\ writer.tables[2].length = 5
    /\ Len(zlibCompress(PutData(writer.tables[2].tag))) >= 5

\* a WOFF Writer has stored a 'head' table as it is
C25_HeadRaw ==
    /\ writer.flavor = "woff" /\ ~writer.closed /\ Len(writer.tables) = 1
    /\ writer.tables[1].tag = TagHead /\ writer.tables[1].length = 14
    /\ StoredRaw(writer.tables[1])

(***************************************************************************)
(* The bounding boxes of the transformed 'glyf' table.                      *)
(***************************************************************************)
\* numGlyphs of the header of transformed data
NumGlyphsOf(data) == UnpackH(Slice(data, 4, 6))

\* the bytes of the bitmap at the head of the bbox stream of n glyphs
BitmapOf(data, n) == Slice(substream(data, 6), 0, ((n + 31) \div 32) * 4)

\* the bounding boxes that follow the bitmap
BBoxesOf(data, n) == From(substream(data, 6), ((n + 31) \div 32) * 4)

\* bit i of the bitmap: the mask 0x80 >> (i & 7) of the byte i >> 3
BitOf(data, n, i) == (BitmapOf(data, n)[(i \div 8) + 1] \div (2 ^ (7 - (i % 8)))) % 2 = 1

SetBits(data, n) == {i \in 0..(n - 1) : BitOf(data, n, i)}

\* the number of contours of glyph i in the nContour stream
ContoursOf(data, i) == UnpackSH(Slice(substream(data, 1), 2 * i, 2 * i + 2))

\* the glyph is composite, or simple with a bounding box that is not the
\* bounds of its points
StoresBBox(glyph) ==
    \/ glyph.numberOfContours = -1
    \/ /\ glyph.numberOfContours > 0
       /\ glyph.bbox # calcIntBounds(glyph.coordinates)

PackedBBox(glyph) ==
    PackSH(glyph.bbox[1]) \o PackSH(glyph.bbox[2]) \o PackSH(glyph.bbox[3])
    \o PackSH(glyph.bbox[4])

\* the policy of transform on these glyphs and this output
BBoxesWritten(glyphs, data) ==
    /\ \A i \in 0..(Len(glyphs) - 1) : BitOf(data, Len(glyphs), i) <=> StoresBBox(glyphs[i + 1])
    /\ \A i \in 0..(Len(BitmapOf(data, Len(glyphs))) * 8 - 1) :
          BitOf(data, Len(glyphs), i) => i < Len(glyphs)
    /\ Len(BBoxesOf(data, Len(glyphs))) = 8 * Cardinality(SetBits(data, Len(glyphs)))
    /\ \A i \in SetBits(data, Len(glyphs)) :
          Slice(BBoxesOf(data, Len(glyphs)),
                8 * Cardinality({j \in SetBits(data, Len(glyphs)) : j < i}),
                8 * Cardinality({j \in SetBits(data, Len(glyphs)) : j < i}) + 8)
             = PackedBBox(glyphs[i + 1])

\* transformed data whose streams have the sizes of the header and whose
\* bitmap is there for every glyph
WellSized(data) ==
    /\ Len(data) >= woff2GlyfTableFormatSize
    /\ substreamOffset(data) = Len(data)
    /\ Len(substream(data, 1)) = 2 * NumGlyphsOf(data)
    /\ Len(substream(data, 6)) >= ((NumGlyphsOf(data) + 31) \div 32) * 4

\* the policy of reconstruct on this data with this result
BBoxesRead(data, out) ==
    WellSized(data) =>
        \A i \in 0..(NumGlyphsOf(data) - 1) :
            /\ (ContoursOf(data, i) = -1 /\ ~BitOf(data, NumGlyphsOf(data), i)) => ~out.ok
            /\ (ContoursOf(data, i) > 0 /\ ~BitOf(data, NumGlyphsOf(data), i) /\ out.ok)
                  => out.glyphs[i + 1].bbox = calcIntBounds(out.glyphs[i + 1].coordinates)

\* C26: transform sets bit i of the bitmap (byte i >> 3, mask 0x80 >> (i & 7))
\* and appends the 8 bytes of the bounding box exactly for the glyphs that
\* are composite, or simple with a bounding box other than the bounds of
\* their points; no bit is set for an empty glyph, and the bbox stream has 8
\* bytes for every bit that is set; reconstruct fails on a composite glyph
\* whose bit is clear and gives a simple glyph whose bit is clear the bounds
\* of its points
C26_BBoxPolicy ==
    /\ Applied("transform") =>
          /\ BBoxesWritten(codec.arg, codec.packed)
          /\ BBoxesRead(codec.packed, codec.out)
    /\ Applied("reconstruct") => BBoxesRead(codec.arg, codec.out)

\* the table of 34 glyphs: bits 8, 17 and 33 are set and three bounding boxes
\* follow the 8 bytes of the bitmap
C26_Witness ==
    /\ Applied("transform") /\ Len(codec.arg) = 34
    /\ BitmapOf(codec.packed, 34) = <<0, 128, 64, 0, 64, 0, 0, 0>>
    /\ Len(BBoxesOf(codec.packed, 34)) = 24
    /\ codec.out.ok /\ codec.out.glyphs[18].bbox = <<10, -5, 300, 700>>

\* a simple glyph with the bounds of its points as bounding box: its bit
\* is clear, nothing is stored, and reconstruct computes the bounds
C26_Recomputed ==
    /\ Applied("transform") /\ Len(codec.arg) = 1
    /\ codec.arg[1].numberOfContours = 1
    /\ SetBits(codec.packed, 1) = {} /\ BBoxesOf(codec.packed, 1) = <<>>
    /\ codec.out.ok /\ codec.out.glyphs[1].bbox = <<10, -5, 300, 700>>

\* reconstruct fails on a composite glyph whose bit is clear
C26_CompositeRefused ==
    /\ Applied("reconstruct") /\ WellSized(codec.arg)
    /\ ContoursOf(codec.arg, 0) = -1 /\ ~BitOf(codec.arg, 1, 0)
    /\ ~codec.out.ok /\ codec.out.err = "no bbox values for composite glyph"

(***************************************************************************)
(* The data of the 'loca' table.                                            *)
(***************************************************************************)
\* value i (from 1) of data that is made of values of 2 bytes and of 4
\* bytes, the most significant byte first
ShortAt(data, i) == data[2 * i - 1] * 256 + data[2 * i]

LongAt(data, i) ==
    ((data[4 * i - 3] * 256 + data[4 * i - 2]) * 256 + data[4 * i - 1]) * 256 + data[4 * i]

C27_Refused ==
    /\ Applied("getLocaData") /\ codec.rest = 0 /\ ~codec.out.ok
    /\ \/ codec.arg = <<0, 131071>> \/ codec.arg = <<0, 131072>> \/ codec.arg = <<0, 7>>

\* the offsets 0, 7 and 0x20000 in the long format
C27_Long ==
    /\ Applied("getLocaData") /\ codec.rest = 2 /\ codec.arg = <<0, 7, 131072>>
    /\ codec.out.ok /\ codec.out.data = <<0, 0, 0, 0, 0, 0, 0, 7, 0, 2, 0, 0>>

(***************************************************************************)
(* The sizes of the streams of the transformed 'glyf' table.                *)
(***************************************************************************)
\* the size of stream k (from 1) that the header of the data declares
DeclaredSize(data, k) == U32(Slice(data, 4 + 4 * k, 8 + 4 * k))

\* the header and the seven streams of the sizes that are declared
DeclaredTotal(data) ==
    woff2GlyfTableFormatSize
    + DeclaredSize(data, 1) + DeclaredSize(data, 2) + DeclaredSize(data, 3)
    + DeclaredSize(data, 4) + DeclaredSize(data, 5) + DeclaredSize(data, 6)
    + DeclaredSize(data, 7)

\* the data has no whole header, or not the size its header declares
WrongSize(data) ==
    Len(data) < woff2GlyfTableFormatSize \/ DeclaredTotal(data) # Len(data)

\* C28: reconstruct fails, with the error of the header or of the sizes and
\* so before a glyph is decoded, on all data whose length is not 36 plus the
\* seven sizes of its header, longer or shorter; and the data transform gives
\* has this length, with 2 * numGlyphs as the size of the nContour stream
C28_StreamSizes ==
    /\ Applied("reconstruct") =>
          (WrongSize(codec.arg) =>
              /\ ~codec.out.ok
              /\ codec.out.err \in {"struct.error",
                                    "incorrect size of transformed 'glyf' table"})
    /\ Applied("transform") =>
          /\ ~WrongSize(codec.packed)
          /\ DeclaredSize(codec.packed, 1) = 2 * Len(codec.arg)
          /\ NumGlyphsOf(codec.packed) = Len(codec.arg)

\* data with one byte more than its header declares is refused
C28_Witness ==
    /\ Applied("reconstruct") /\ Len(codec.arg) = 47 /\ DeclaredTotal(codec.arg) = 46
    /\ ~codec.out.ok /\ codec.out.err = "incorrect size of transformed 'glyf' table"

\* data with one byte less than its header declares is refused
C28_Shorter ==
    /\ Applied("reconstruct") /\ Len(codec.arg) = 45 /\ DeclaredTotal(codec.arg) = 46
    /\ ~codec.out.ok /\ codec.out.err = "incorrect size of transformed 'glyf' table"

\* the transformed data of two glyphs with points, instructions and a
\* bounding box has the size of its header
C28_Transformed ==
    /\ Applied("transform") /\ Len(codec.arg) = 2
    /\ DeclaredSize(codec.packed, 1) = 4 /\ DeclaredSize(codec.packed, 2) > 0
    /\ DeclaredSize(codec.packed, 6) = 12 /\ DeclaredSize(codec.packed, 7) > 0
    /\ Len(codec.packed) = DeclaredTotal(codec.packed)

(***************************************************************************)
(* The layout of the tables of an SFNT or WOFF Writer.                      *)
(***************************************************************************)
\* where the directory of the Writer ends
DirectoryEnd == directorySize(writer.flavor) + writer.numTables * formatSize(writer.flavor)

\* the entry of the i-th put
PutEntry(i) == TableOf(writer.tables, puts[i][1])

\* the bytes of the file from the end of the entry to the next multiple of 4
\* are zero
ZeroPadded(e) ==
    \A k \in (e.offset + e.length + 1)..Align4(e.offset + e.length) :
        k <= Len(file) /\ file[k] = 0

\* C29: after the puts on an SFNT or WOFF Writer nextTableOffset is a
\* multiple of 4 and is where the output ends (nothing is in the output as
\* long as every table that was put is empty); the entries have pairwise
\* disjoint ranges that begin at multiples of 4, in the order of the puts, at
\* or after the end of the directory, and up to close() each is followed by
\* zero bytes up to the next multiple of 4; so no range overlaps another or
\* the directory, also after close()
C29_Layout ==
    writer.flavor \in {"sfnt", "woff"} =>
        /\ writer.nextTableOffset % 4 = 0
        /\ writer.nextTableOffset >= DirectoryEnd
        /\ Len(writer.tables) = Len(puts)
        /\ ~writer.closed =>
              /\ Len(file) \in {0, writer.nextTableOffset}
              /\ Len(file) = 0 <=> \A i \in 1..Len(puts) : PutEntry(i).length = 0
        /\ \A i \in 1..Len(puts) :
              /\ PutEntry(i).offset % 4 = 0
              /\ PutEntry(i).offset >= DirectoryEnd
              /\ PutEntry(i).offset + PutEntry(i).length <= writer.nextTableOffset
              /\ (~writer.closed /\ Len(file) > 0) => ZeroPadded(PutEntry(i))
              /\ \A j \in 1..Len(puts) :
                    i < j => PutEntry(i).offset + PutEntry(i).length <= PutEntry(j).offset

\* a Writer has stored a table of 5 bytes and then a table of 8 bytes, 8
\* bytes after the first
C29_Witness ==
    /\ writer.flavor = "sfnt" /\ ~writer.closed /\ Len(puts) = 2
    /\ PutEntry(1).length = 5 /\ PutEntry(1).offset = DirectoryEnd
    /\ PutEntry(2).length = 8 /\ PutEntry(2).offset = DirectoryEnd + 8
    /\ Len(file) = DirectoryEnd + 16 /\ writer.nextTableOffset = DirectoryEnd + 16
    /\ Slice(file, DirectoryEnd + 5, DirectoryEnd + 8) = <<0, 0, 0>>

\* a WOFF Writer is closed on two tables that do not overlap
C29_Closed ==
    /\ writer.flavor = "woff" /\ writer.closed /\ Len(puts) = 2
    /\ PutEntry(1).length > 0 /\ PutEntry(2).length > 0
    /\ PutEntry(2).offset = PutEntry(1).offset + Align4(PutEntry(1).length)

(***************************************************************************)
(* What the patch of the checkSumAdjustment changes.                        *)
(***************************************************************************)
\* the bytes the Writer stored for the entry when it was put
BytesPut(e) == encodeData(writer.flavor, e.uncompressed, PutData(e.tag))

\* the entries whose range holds position k of the output (counted from 0)
EntriesAt(k) ==
    {i \in 1..Len(writer.tables) :
        /\ writer.tables[i].offset <= k
        /\ k < writer.tables[i].offset + writer.tables[i].length}

\* position k of the output is one of bytes 8..11 of the stored 'head'
InAdjustment(k) ==
    \E i \in EntriesAt(k) :
        /\ writer.tables[i].tag = TagHead
        /\ k - writer.tables[i].offset \in 8..11

\* position k of the output holds what the puts wrote there: the byte of the
\* table whose range holds k, or a zero byte of padding
AsPut(k) ==
    /\ k < Len(file)
    /\ IF EntriesAt(k) = {} THEN file[k + 1] = 0
       ELSE \A i \in EntriesAt(k) :
                file[k + 1] = BytesPut(writer.tables[i])[k - writer.tables[i].offset + 1]

\* the tables and the padding in the file of a closed SFNT or WOFF Writer are
\* as they were put, but for bytes 8..11 of 'head'
FileFrame ==
    /\ \A k \in DirectoryEnd..(writer.nextTableOffset - 1) : InAdjustment(k) \/ AsPut(k)
    /\ writer.flavor = "sfnt" => Len(file) = writer.nextTableOffset

\* the transformBuffer of a closed WOFF2 Writer is the data of the tables as
\* they were put, one after the other, but for bytes 8..11 of 'head'
BufferFrame ==
    /\ Len(writer.transformBuffer) = SumEntryLengths(writer.tables, 1)
    /\ \A i \in 1..Len(writer.tables) :
          SameExceptAdjustment(writer.tables[i].tag,
              ReadAt(writer.transformBuffer, writer.tables[i].offset,
                     writer.tables[i].length),
              PutData(writer.tables[i].tag))

\* close() has patched the checkSumAdjustment
Patched == writer.closed /\ Len(writer.tables) = Len(puts) /\ TagHead \in PutTags

\* C30 as stated: the patch of the checkSumAdjustment on close() changes only
\* bytes 8..11 of the stored 'head', whatever the length of 'head': the bytes
\* of every other table and the padding are what they were before the patch,
\* in the file of an SFNT or WOFF Writer and in the uncompressed buffer of a
\* WOFF2 Writer
C30_PatchFrame ==
    Patched => IF writer.flavor = "woff2" THEN BufferFrame ELSE FileFrame

\* the same for the fonts whose 'head' has at least 12 bytes
C30_PatchFrameOfLongHead ==
    (Patched /\ Len(PutData(TagHead)) >= 12) =>
        IF writer.flavor = "woff2" THEN BufferFrame ELSE FileFrame

\* a closed Writer of two tables with a 'head' of 14 bytes, patched in place
C30_LongHead ==
    /\ Patched /\ Len(puts) = 2 /\ Len(PutData(TagHead)) = 14
    /\ IF writer.flavor = "woff2" THEN BufferFrame ELSE FileFrame

\* an SFNT Writer whose 4-byte 'head' is followed by a table that the patch
\* has changed
C30_SfntClobbered ==
    /\ Patched /\ writer.flavor = "sfnt" /\ Len(puts) = 2
    /\ Len(PutData(TagHead)) = 4
    /\ \E i \in 1..2 :
          /\ writer.tables[i].tag # TagHead
          /\ StoredBytes(writer.tables[i]) # PutData(writer.tables[i].tag)

\* a WOFF Writer whose 8-byte 'head' is followed by a table that the patch
\* has changed
C30_WoffClobbered ==
    /\ Patched /\ writer.flavor = "woff" /\ Len(puts) = 2
    /\ Len(PutData(TagHead)) = 8
    /\ \E i \in 1..2 :
          /\ writer.tables[i].tag # TagHead
          /\ StoredBytes(writer.tables[i]) # BytesPut(writer.tables[i])

\* a WOFF2 Writer whose buffer the patch has made longer than its tables
C30_BufferGrown ==
    /\ Patched /\ writer.flavor = "woff2"
    /\ Len(PutData(TagHead)) = 8
    /\ Len(writer.transformBuffer) > SumEntryLengths(writer.tables, 1)

====
